---- MODULE Spec2Model ----
(***************************************************************************)
(* Talent-flow: assessment builder store, assessment repository, mock API *)
(* handlers and the candidate submission form, as state machines.         *)
(*                                                                         *)
(* Conventions                                                             *)
(*   - a JavaScript string that the code inspects (trims, measures,       *)
(*     compares) is a sequence of one-character strings: "" is <<>>;      *)
(*   - an optional value (`x?: T`, `T | null` used as absent) is a        *)
(*     sequence of length 0 or 1: None / Some(v);                         *)
(*   - a form value is a record tagged with its JavaScript type (field k), *)
(*     so that values of different types can be compared;                 *)
(*   - nanoid() is a fresh identifier drawn from a counter.               *)
(***************************************************************************)
EXTENDS Integers, Sequences, FiniteSets, TLC

VARIABLES
    \* ---- visibility evaluator (isQuestionVisible) and its inputs
    pq,             \* the question whose visibility is evaluated
    pvalues,        \* the form values it is evaluated against
    pout,           \* None, or Some(result) of the last evaluation
    \* ---- builder store (useAssessmentsStore)
    selectedJobId,  \* None or Some(job)
    assessment,     \* None or Some(AssessmentRecord)
    isLoading,
    isPersisting,
    error,          \* None or Some(message)
    calls,          \* the asynchronous store calls in flight (initialize, refresh, persist)
    started,        \* number of asynchronous store calls started so far
    applied,        \* the call whose result was last applied, and the newest call then started
    settled,        \* the call whose promise settled last, and how: "resolved" or "rejected"
    budget,         \* number of builder mutations the session may still apply
    lastOp,         \* the last builder mutation: name, arguments, the assessment before and after it,
                    \* and the persist calls in flight when it was applied
    \* ---- submission page (AssessmentSubmit)
    pageAssessment, \* useState: None or Some(AssessmentRecord)
    pageIsLoading,  \* useState
    pageError,      \* useState: None or Some(message)
    formValues,     \* react-hook-form: candidateName, candidateEmail and a value per question
    formErrors,     \* formState.errors as the last handleSubmit left them
    isSubmitting,   \* formState.isSubmitting
    toast,          \* the last toast shown: "none", "success" or "error"
    request,        \* None, or Some(fetch of the page that is in flight)
    attempts,       \* the respondent's edits, and the submit attempts: started, ended
                    \* submitted, ended failed
    \* ---- repository (Dexie tables) and environment
    dbAssessments,  \* table `assessments`: job |-> None or Some(AssessmentRecord)
    dbSubmissions,  \* table `submissions`: the records in insertion order
    submissionKey,  \* table `submissions`: the last key its ++id generator gave out
    nextId,         \* nanoid(): the next fresh identifier
    now             \* the wall clock read by new Date()

visVars == <<pq, pvalues, pout>>
storeVars == <<selectedJobId, assessment, isLoading, isPersisting, error, calls, started,
               applied, settled, budget, lastOp>>
formVars == <<pageAssessment, pageIsLoading, pageError, formValues, formErrors, isSubmitting,
              toast, request, attempts>>
envVars == <<dbAssessments, dbSubmissions, submissionKey, nextId, now>>
vars == <<visVars, storeVars, formVars, envVars>>

---------------------------------------------------------------------------
(* Generic helpers                                                         *)

None == <<>>
Some(v) == <<v>>
IsSome(o) == Len(o) = 1
Get(o) == o[1]

Range(s) == {s[i] : i \in 1..Len(s)}

\* Array.prototype.includes
Includes(s, x) == \E i \in 1..Len(s) : s[i] = x

---------------------------------------------------------------------------
(* Form values: string | string[] | number | File | null | undefined       *)

Undefined == [k |-> "undefined"]
Null == [k |-> "null"]
StrV(s) == [k |-> "string", s |-> s]
ArrV(a) == [k |-> "array", a |-> a]
NumV(n) == [k |-> "number", n |-> n]
FileV(name, type, size) == [k |-> "file", name |-> name, type |-> type, size |-> size]

\* values[key]: a key the form does not hold reads as undefined
ValueOf(values, key) == IF key \in DOMAIN values THEN values[key] ELSE Undefined

\* conditionalLogic.equals: string | string[]
EqStr(s) == StrV(s)
EqArr(a) == ArrV(a)

\* strings of the model
S_yes == <<"y", "e", "s">>
S_no == <<"n", "o">>
S_x == <<"x">>
S_empty == <<>>

---------------------------------------------------------------------------
(* Strings the code inspects                                               *)

\* String.prototype.trim: whitespace of the model is the space character
RECURSIVE TrimLeft(_)
TrimLeft(s) == IF s # <<>> /\ Head(s) = " " THEN TrimLeft(Tail(s)) ELSE s
RECURSIVE TrimRight(_)
TrimRight(s) ==
    IF s # <<>> /\ s[Len(s)] = " " THEN TrimRight(SubSeq(s, 1, Len(s) - 1)) ELSE s
Trim(s) == TrimRight(TrimLeft(s))

\* String.prototype.toLowerCase on the letters of the model
UpperCase == {"A", "B", "C", "I", "L", "M", "O", "P", "R", "S", "V"}
LowerOf(c) ==
    CASE c = "A" -> "a" [] c = "B" -> "b" [] c = "C" -> "c" [] c = "I" -> "i"
      [] c = "L" -> "l" [] c = "M" -> "m" [] c = "O" -> "o" [] c = "P" -> "p"
      [] c = "R" -> "r" [] c = "S" -> "s" [] c = "V" -> "v" [] OTHER -> c
ToLowerCase(s) == [i \in 1..Len(s) |-> LowerOf(s[i])]

SlugChars == {"a", "b", "c", "d", "e", "f", "g", "h", "i", "j", "k", "l", "m", "n", "o",
              "p", "q", "r", "s", "t", "u", "v", "w", "x", "y", "z",
              "0", "1", "2", "3", "4", "5", "6", "7", "8", "9"}

\* s.replace(/[^a-z0-9]+/g, '-'): every maximal run of other characters
\* becomes one hyphen
RECURSIVE ReplaceRuns(_, _)
ReplaceRuns(s, inRun) ==
    IF s = <<>> THEN <<>>
    ELSE IF Head(s) \in SlugChars THEN <<Head(s)>> \o ReplaceRuns(Tail(s), FALSE)
    ELSE IF inRun THEN ReplaceRuns(Tail(s), TRUE)
    ELSE <<"-">> \o ReplaceRuns(Tail(s), TRUE)

\* label.toLowerCase().replace(/[^a-z0-9]+/g, '-')
Slug(label) == ReplaceRuns(ToLowerCase(label), FALSE)

\* choice labels of the source
L_OptionA == <<"O", "p", "t", "i", "o", "n", " ", "A">>
L_OptionB == <<"O", "p", "t", "i", "o", "n", " ", "B">>
L_OptionC == <<"O", "p", "t", "i", "o", "n", " ", "C">>
L_React == <<"R", "e", "a", "c", "t">>
L_Preact == <<"P", "r", "e", "a", "c", "t">>
L_Vue == <<"V", "u", "e">>
L_Svelte == <<"S", "v", "e", "l", "t", "e">>
L_Reconciliation == <<"R", "e", "c", "o", "n", "c", "i", "l", "i", "a", "t", "i", "o", "n", " ", "b", "o", "t", "t", "l", "e", "n", "e", "c", "k", "s">>
L_Bundle == <<"L", "a", "r", "g", "e", " ", "b", "u", "n", "d", "l", "e", " ", "s", "i", "z", "e">>
L_Memoization == <<"M", "i", "s", "s", "i", "n", "g", " ", "m", "e", "m", "o", "i", "z", "a", "t", "i", "o", "n">>
L_Selector == <<"I", "n", "e", "f", "f", "i", "c", "i", "e", "n", "t", " ", "s", "e", "l", "e", "c", "t", "o", "r", " ", "l", "o", "g", "i", "c">>

---------------------------------------------------------------------------
(* Document model: utils/storage types                                     *)

Jobs == {"j1", "j2"}

QuestionTypes ==
    {"single_choice", "multi_choice", "short_text", "long_text", "numeric", "file_upload"}

\* QuestionValidationRules: every field optional
NoValidation ==
    [minLength |-> None, maxLength |-> None, minValue |-> None, maxValue |-> None,
     allowedFileTypes |-> None, maxFileSizeMb |-> None]

\* {...a, ...b}: the fields b carries override those of a
Merge(a, b) == [f \in DOMAIN a |-> IF f \in DOMAIN b THEN b[f] ELSE a[f]]

\* a section title: text, and the number `Section ${n}` formats into it
Title(text) == [text |-> text, num |-> 0]
NumberedTitle(n) == [text |-> "Section", num |-> n]

AllQuestions(a) ==
    LET RECURSIVE Flat(_)
        Flat(ss) == IF ss = <<>> THEN <<>> ELSE Head(ss).questions \o Flat(Tail(ss))
    IN  Flat(a.sections)

SectionIds(a) == {a.sections[i].id : i \in 1..Len(a.sections)}
QuestionIds(a) == {q.id : q \in Range(AllQuestions(a))}

\* Array.prototype.findIndex, 1-based; 0 when absent
FindIndex(questions, questionId) ==
    IF \E i \in 1..Len(questions) : questions[i].id = questionId
    THEN CHOOSE i \in 1..Len(questions) :
            /\ questions[i].id = questionId
            /\ \A j \in 1..(i - 1) : questions[j].id # questionId
    ELSE 0

\* Array.prototype.filter
RECURSIVE SelectById(_, _)
SelectById(items, keep) ==
    IF items = <<>> THEN <<>>
    ELSE IF Head(items).id \in keep
         THEN <<Head(items)>> \o SelectById(Tail(items), keep)
         ELSE SelectById(Tail(items), keep)

---------------------------------------------------------------------------
(* Builder mutation engine: store/useAssessmentsStore.ts                   *)

\* normalizeSectionOrders that leaves every `order` as it finds it
normalizeSectionOrdersKeep(sections) == sections

\* sections.map((section, index) => ({ ...section, order: index }))
normalizeSectionOrders(sections) ==
    [i \in 1..Len(sections) |-> [sections[i] EXCEPT !.order = i - 1]]

\* questions.map((question, index) => ({ ...question, order: index }))
normalizeQuestionOrders(questions) ==
    [i \in 1..Len(questions) |-> [questions[i] EXCEPT !.order = i - 1]]

createPlaceholderChoice(label, id) ==
    [id |-> id, label |-> label, value |-> Slug(label)]

defaultValidationForType(type) ==
    CASE type = "short_text" ->
            [NoValidation EXCEPT !.minLength = Some(0), !.maxLength = Some(280)]
      [] type = "long_text" ->
            [NoValidation EXCEPT !.minLength = Some(0), !.maxLength = Some(1200)]
      [] type = "numeric" ->
            [NoValidation EXCEPT !.minValue = Some(0), !.maxValue = Some(100)]
      [] type = "file_upload" ->
            [NoValidation EXCEPT !.allowedFileTypes = Some(<<"application/pdf", "image/png">>),
                                 !.maxFileSizeMb = Some(10)]
      [] OTHER -> NoValidation

\* the number of nanoid() calls createDefaultQuestion makes for a type
IdsOfDefaultQuestion(type) ==
    CASE type = "single_choice" -> 3
      [] type = "multi_choice" -> 4
      [] OTHER -> 1

\* id is the first of the fresh identifiers the call draws
createDefaultQuestion(sectionId, order, type, id) ==
    LET base ==
            [id |-> id, sectionId |-> sectionId, order |-> order, type |-> type,
             label |-> "Untitled question", description |-> None, helperText |-> None,
             required |-> TRUE, validation |-> defaultValidationForType(type),
             conditionalLogic |-> None, choices |-> None]
    IN  CASE type = "single_choice" ->
                [base EXCEPT
                    !.description = Some("Select one option that best fits."),
                    !.helperText = Some("Provide rationale in later sections if needed."),
                    !.choices = Some(<<createPlaceholderChoice(L_OptionA, id + 1),
                                       createPlaceholderChoice(L_OptionB, id + 2)>>)]
          [] type = "multi_choice" ->
                [base EXCEPT
                    !.description = Some("Choose all answers that apply."),
                    !.helperText = Some("Multiple selections allowed."),
                    !.choices = Some(<<createPlaceholderChoice(L_OptionA, id + 1),
                                       createPlaceholderChoice(L_OptionB, id + 2),
                                       createPlaceholderChoice(L_OptionC, id + 3)>>)]
          [] type = "file_upload" ->
                [base EXCEPT
                    !.helperText = Some("Upload supporting assets as a single file.")]
          [] OTHER -> base

\* payload.field ?? fallback, for a payload whose fields are optional
Coalesce(option, fallback) == IF IsSome(option) THEN Get(option) ELSE fallback

updateMetadata(a, updates) == Merge(a, updates)

addSection(a, payload, id) ==
    LET section ==
            [id |-> id,
             assessmentId |-> a.jobId,
             order |-> Len(a.sections),
             title |-> Coalesce(payload.title, NumberedTitle(Len(a.sections) + 1)),
             description |-> Some(Coalesce(payload.description, "")),
             timeLimitMinutes |-> payload.timeLimitMinutes,
             questions |-> <<>>]
    IN  [a EXCEPT !.sections = Append(@, section)]

updateSection(a, sectionId, updates) ==
    [a EXCEPT !.sections =
        [i \in 1..Len(@) |-> IF @[i].id = sectionId THEN Merge(@[i], updates) ELSE @[i]]]

removeSection(a, sectionId) ==
    LET filtered == SelectById(a.sections, SectionIds(a) \ {sectionId})
    IN  [a EXCEPT !.sections = normalizeSectionOrders(filtered)]

\* order.map((id) => byId.get(id)).filter(Boolean): new Map(entries) keeps,
\* for an identifier that occurs twice, the last entry
RECURSIVE PickInOrder(_, _)
PickInOrder(items, order) ==
    IF order = <<>> THEN <<>>
    ELSE LET hits == {i \in 1..Len(items) : items[i].id = Head(order)}
         IN  IF hits = {} THEN PickInOrder(items, Tail(order))
             ELSE <<items[CHOOSE i \in hits : \A j \in hits : j <= i]>>
                      \o PickInOrder(items, Tail(order))

reorderSections(a, sectionOrder) ==
    LET ordered == PickInOrder(a.sections, sectionOrder)
        remaining == SelectById(a.sections, SectionIds(a) \ Range(sectionOrder))
        merged == ordered \o remaining
    IN  [a EXCEPT !.sections = normalizeSectionOrders(merged)]

\* the question addQuestion builds for a section; payload fields are optional
NewQuestion(section, payload, id) ==
    LET type == Coalesce(payload.type, "short_text")
        baseQuestion == createDefaultQuestion(section.id, Len(section.questions), type, id)
    IN  [baseQuestion EXCEPT
            !.label = Coalesce(payload.label, baseQuestion.label),
            !.description =
                IF IsSome(payload.description) THEN payload.description
                ELSE baseQuestion.description,
            !.helperText =
                IF IsSome(payload.helperText) THEN payload.helperText
                ELSE baseQuestion.helperText,
            !.required = Coalesce(payload.required, baseQuestion.required),
            !.validation =
                IF IsSome(payload.validation)
                THEN Merge(baseQuestion.validation, Get(payload.validation))
                ELSE baseQuestion.validation,
            !.conditionalLogic =
                IF IsSome(payload.conditionalLogic) THEN payload.conditionalLogic
                ELSE baseQuestion.conditionalLogic,
            !.choices =
                IF IsSome(payload.choices) THEN payload.choices ELSE baseQuestion.choices]

\* sections.map(...): every section with the identifier gets its own question,
\* each drawing its own fresh identifiers
RECURSIVE AddQuestionToSections(_, _, _, _)
AddQuestionToSections(sections, sectionId, payload, id) ==
    IF sections = <<>> THEN <<>>
    ELSE LET section == Head(sections)
         IN  IF section.id # sectionId
             THEN <<section>> \o AddQuestionToSections(Tail(sections), sectionId, payload, id)
             ELSE <<[section EXCEPT
                        !.questions = Append(@, NewQuestion(section, payload, id))]>>
                    \o AddQuestionToSections(Tail(sections), sectionId, payload,
                            id + IdsOfDefaultQuestion(Coalesce(payload.type, "short_text")))

addQuestion(a, sectionId, payload, id) ==
    [a EXCEPT !.sections = AddQuestionToSections(@, sectionId, payload, id)]

\* the nanoid() calls of addQuestion
IdsOfAddQuestion(a, sectionId, payload) ==
    Cardinality({i \in 1..Len(a.sections) : a.sections[i].id = sectionId})
        * IdsOfDefaultQuestion(Coalesce(payload.type, "short_text"))

\* the four targeted merges share one shape: in every section holding the
\* question, the first question with the identifier is replaced
ReplaceQuestion(a, questionId, Change(_)) ==
    [a EXCEPT !.sections =
        [i \in 1..Len(@) |->
            LET index == FindIndex(@[i].questions, questionId)
            IN  IF index = 0 THEN @[i]
                ELSE [@[i] EXCEPT !.questions[index] = Change(@)]]]

updateQuestion(a, questionId, updates) ==
    LET Change(question) == Merge(question, updates)
    IN  ReplaceQuestion(a, questionId, Change)

updateQuestionValidation(a, questionId, validation) ==
    LET Change(question) ==
            [question EXCEPT !.validation = Merge(question.validation, validation)]
    IN  ReplaceQuestion(a, questionId, Change)

\* conditional ?? undefined
updateQuestionConditional(a, questionId, conditional) ==
    LET Change(question) == [question EXCEPT !.conditionalLogic = conditional]
    IN  ReplaceQuestion(a, questionId, Change)

setQuestionChoices(a, questionId, choices) ==
    LET Change(question) == [question EXCEPT !.choices = Some(choices)]
    IN  ReplaceQuestion(a, questionId, Change)

removeQuestion(a, questionId) ==
    [a EXCEPT !.sections =
        [i \in 1..Len(@) |->
            IF \A k \in 1..Len(@[i].questions) : @[i].questions[k].id # questionId
            THEN @[i]
            ELSE LET keep == {q.id : q \in Range(@[i].questions)} \ {questionId}
                 IN  [@[i] EXCEPT
                        !.questions = normalizeQuestionOrders(SelectById(@, keep))]]]

reorderQuestions(a, sectionId, questionOrder) ==
    [a EXCEPT !.sections =
        [i \in 1..Len(@) |->
            IF @[i].id # sectionId THEN @[i]
            ELSE LET questions == @[i].questions
                     ordered == PickInOrder(questions, questionOrder)
                     remaining ==
                        SelectById(questions,
                                   {q.id : q \in Range(questions)} \ Range(questionOrder))
                     merged == ordered \o remaining
                 IN  [@[i] EXCEPT !.questions = normalizeQuestionOrders(merged)]]]

\* a clone that shares the original's choice objects
CloneQuestionSharedChoices(section, question, id) ==
    [question EXCEPT !.id = id, !.order = Len(section.questions)]

\* the clone duplicateQuestion makes of a question; id is the first fresh identifier
CloneQuestion(section, question, id) ==
    [question EXCEPT
        !.id = id,
        !.order = Len(section.questions),
        !.choices =
            IF IsSome(@)
            THEN Some([k \in 1..Len(Get(@)) |-> [Get(@)[k] EXCEPT !.id = id + k]])
            ELSE None]

IdsOfClone(question) ==
    1 + (IF IsSome(question.choices) THEN Len(Get(question.choices)) ELSE 0)

RECURSIVE DuplicateInSections(_, _, _)
DuplicateInSections(sections, questionId, id) ==
    IF sections = <<>> THEN <<>>
    ELSE LET section == Head(sections)
             index == FindIndex(section.questions, questionId)
         IN  IF index = 0
             THEN <<section>> \o DuplicateInSections(Tail(sections), questionId, id)
             ELSE <<[section EXCEPT
                        !.questions =
                            Append(@, CloneQuestion(section, section.questions[index], id))]>>
                    \o DuplicateInSections(Tail(sections), questionId,
                                           id + IdsOfClone(section.questions[index]))

duplicateQuestion(a, questionId, id) ==
    [a EXCEPT !.sections = DuplicateInSections(@, questionId, id)]

RECURSIVE SumIdsOfClones(_, _)
SumIdsOfClones(sections, questionId) ==
    IF sections = <<>> THEN 0
    ELSE LET index == FindIndex(Head(sections).questions, questionId)
         IN  (IF index = 0 THEN 0 ELSE IdsOfClone(Head(sections).questions[index]))
                + SumIdsOfClones(Tail(sections), questionId)

\* the nanoid() calls of duplicateQuestion
IdsOfDuplicate(a, questionId) == SumIdsOfClones(a.sections, questionId)

---------------------------------------------------------------------------
(* Repository: utils/storage (Dexie tables `assessments`, `submissions`)   *)

createChoice(label, id) == [id |-> id, label |-> label, value |-> Slug(label)]

\* the number of nanoid() calls createDefaultSections makes
IdsOfDefaultSections == 16

\* id is the first of the fresh identifiers the call draws
createDefaultSections(jobId, id) ==
    LET introSectionId == id
        practicalSectionId == id + 1
        frameworkQuestionId == id + 2
        introSection ==
            [id |-> introSectionId, assessmentId |-> jobId, order |-> 0,
             title |-> Title("Foundations"),
             description |-> Some("Baseline knowledge and collaboration style."),
             timeLimitMinutes |-> Some(30),
             questions |-> <<
                [id |-> frameworkQuestionId, sectionId |-> introSectionId, order |-> 0,
                 type |-> "single_choice",
                 label |-> "Which front-end framework do you prefer for rapid prototyping?",
                 description |-> None,
                 helperText |-> Some("Pick the option that reflects your typical choice."),
                 required |-> TRUE, validation |-> NoValidation, conditionalLogic |-> None,
                 choices |-> Some(<<createChoice(L_React, id + 3), createChoice(L_Preact, id + 4),
                                    createChoice(L_Vue, id + 5), createChoice(L_Svelte, id + 6)>>)],
                [id |-> id + 7, sectionId |-> introSectionId, order |-> 1,
                 type |-> "short_text",
                 label |-> "Describe your approach to ensuring accessibility in UI features.",
                 description |-> None,
                 helperText |-> Some("Mention tooling or checklists you rely on."),
                 required |-> TRUE,
                 validation |-> [NoValidation EXCEPT !.minLength = Some(32),
                                                     !.maxLength = Some(480)],
                 conditionalLogic |-> None, choices |-> None] >>]
        practicalSection ==
            [id |-> practicalSectionId, assessmentId |-> jobId, order |-> 1,
             title |-> Title("Practical Scenarios"),
             description |-> Some("Realistic problems to understand decision making."),
             timeLimitMinutes |-> Some(60),
             questions |-> <<
                [id |-> id + 8, sectionId |-> practicalSectionId, order |-> 0,
                 type |-> "multi_choice",
                 label |-> "Select the performance issues you would investigate first when a React view feels sluggish.",
                 description |-> None,
                 helperText |-> Some("Pick all that commonly affect you."),
                 required |-> TRUE, validation |-> NoValidation, conditionalLogic |-> None,
                 choices |-> Some(<<createChoice(L_Reconciliation, id + 9),
                                    createChoice(L_Bundle, id + 10),
                                    createChoice(L_Memoization, id + 11),
                                    createChoice(L_Selector, id + 12)>>)],
                [id |-> id + 13, sectionId |-> practicalSectionId, order |-> 1,
                 type |-> "numeric",
                 label |-> "What maximum FID (First Input Delay) do you target for production apps? (ms)",
                 description |-> None, helperText |-> None,
                 required |-> TRUE,
                 validation |-> [NoValidation EXCEPT !.minValue = Some(0),
                                                     !.maxValue = Some(500)],
                 conditionalLogic |-> None, choices |-> None],
                [id |-> id + 14, sectionId |-> practicalSectionId, order |-> 2,
                 type |-> "long_text",
                 label |-> "Share a time when you balanced developer experience with runtime performance.",
                 description |-> None,
                 helperText |-> Some("Include metrics or before/after comparisons if available."),
                 required |-> FALSE,
                 validation |-> [NoValidation EXCEPT !.minLength = Some(64),
                                                     !.maxLength = Some(1200)],
                 conditionalLogic |->
                    Some([questionId |-> frameworkQuestionId, equals |-> EqStr(Slug(L_React))]),
                 choices |-> None],
                [id |-> id + 15, sectionId |-> practicalSectionId, order |-> 3,
                 type |-> "file_upload",
                 label |-> "Upload an architecture diagram from a recent project.",
                 description |-> None,
                 helperText |-> Some("PDF or PNG preferred."),
                 required |-> FALSE,
                 validation |->
                    [NoValidation EXCEPT
                        !.allowedFileTypes = Some(<<"application/pdf", "image/png">>),
                        !.maxFileSizeMb = Some(15)],
                 conditionalLogic |-> None, choices |-> None] >>]
    IN  <<introSection, practicalSection>>

\* database.assessments.get(jobId) ?? null
getAssessmentByJobId(table, jobId) == table[jobId]

\* upsertAssessment that only timestamps the record
UpsertRecordKeepsOrders(record, time) == [record EXCEPT !.updatedAt = time]

\* the record upsertAssessment writes and returns: timestamped, with every
\* order, assessmentId and sectionId re-derived from position and owner
UpsertRecord(record, time) ==
    [record EXCEPT
        !.updatedAt = time,
        !.sections =
            [i \in 1..Len(@) |->
                [@[i] EXCEPT
                    !.assessmentId = record.jobId,
                    !.order = i - 1,
                    !.questions =
                        [k \in 1..Len(@) |->
                            [@[k] EXCEPT !.sectionId = record.sections[i].id,
                                         !.order = k - 1]]]]]

\* database.assessments.put(record, record.jobId)
upsertAssessment(table, record, time) ==
    [table EXCEPT ![record.jobId] = Some(UpsertRecord(record, time))]

\* the record ensureAssessmentForJob builds when the job has none
DefaultAssessment(jobId, id, time) ==
    [id |-> id, jobId |-> jobId, title |-> "Untitled assessment", summary |-> "",
     role |-> "Generalist", difficulty |-> "medium", durationMinutes |-> 60,
     status |-> "draft", tags |-> <<>>, createdAt |-> time, updatedAt |-> time,
     sections |-> createDefaultSections(jobId, id + 1)]

IdsOfEnsure(table, jobId) ==
    IF IsSome(table[jobId]) THEN 0 ELSE 1 + IdsOfDefaultSections

\* ensureAssessmentForJob returns the stored record, or the default it has
\* just built (not the record upsertAssessment derived from it)
EnsureResult(table, jobId, id, time) ==
    IF IsSome(table[jobId]) THEN Get(table[jobId]) ELSE DefaultAssessment(jobId, id, time)

EnsureTable(table, jobId, id, time) ==
    IF IsSome(table[jobId]) THEN table
    ELSE upsertAssessment(table, DefaultAssessment(jobId, id, time), time)

---------------------------------------------------------------------------
(* Bounds and inputs of the builder session                                *)

MaxMutations == 2           \* builder mutations in a run of the mutation engine
MaxSessionMutations == 1    \* builder mutations in a run of the asynchronous session
MaxCalls == 3               \* asynchronous store calls started in a run
MaxOrderLen == 2            \* length of the identifier list given to a reorder

FirstFreshId == 100         \* nanoid() never returns an identifier already in use

\* two saved choices
ChoiceYes == [id |-> 11, label |-> S_yes, value |-> S_yes]
ChoiceNo == [id |-> 12, label |-> S_no, value |-> S_no]

\* An assessment as a builder saved it earlier: two sections; a single-choice
\* question, and a three-choice multi-choice question that depends on it.
SavedSections(jobId) ==
    <<[id |-> 1, assessmentId |-> jobId, order |-> 0, title |-> Title("Basics"),
       description |-> Some(""), timeLimitMinutes |-> None,
       questions |-> <<
            [id |-> 3, sectionId |-> 1, order |-> 0, type |-> "single_choice",
             label |-> "Remote?", description |-> None, helperText |-> None,
             required |-> TRUE, validation |-> NoValidation, conditionalLogic |-> None,
             choices |-> Some(<<ChoiceYes, ChoiceNo>>)] >>],
      [id |-> 2, assessmentId |-> jobId, order |-> 1, title |-> NumberedTitle(2),
       description |-> Some(""), timeLimitMinutes |-> Some(30),
       questions |-> <<
            [id |-> 4, sectionId |-> 2, order |-> 0, type |-> "multi_choice",
             label |-> "Untitled question",
             description |-> Some("Choose all answers that apply."),
             helperText |-> Some("Multiple selections allowed."),
             required |-> TRUE, validation |-> NoValidation,
             conditionalLogic |-> Some([questionId |-> 3, equals |-> EqStr(S_yes)]),
             choices |-> Some(<<createPlaceholderChoice(L_OptionA, 13),
                                createPlaceholderChoice(L_OptionB, 14),
                                createPlaceholderChoice(L_OptionC, 15)>>)] >>] >>

SavedAssessment(jobId) ==
    UpsertRecord(
        [id |-> IF jobId = "j1" THEN 21 ELSE 22, jobId |-> jobId,
         title |-> "Untitled assessment", summary |-> "", role |-> "Generalist",
         difficulty |-> "medium", durationMinutes |-> 60, status |-> "draft",
         tags |-> <<>>, createdAt |-> 0, updatedAt |-> 0,
         sections |-> SavedSections(jobId)], 0)

MetadataUpdates == {[title |-> "Renamed", status |-> "published"]}

SectionPayloads ==
    {[title |-> None, description |-> None, timeLimitMinutes |-> None],
     [title |-> Some(Title("Culture")), description |-> Some("Team fit"),
      timeLimitMinutes |-> Some(15)]}

SectionUpdates == {[title |-> Title("Edited"), timeLimitMinutes |-> None]}

NoQuestionPayload ==
    [type |-> None, label |-> None, description |-> None, helperText |-> None,
     required |-> None, choices |-> None, validation |-> None, conditionalLogic |-> None]

QuestionPayloads ==
    {NoQuestionPayload,
     [NoQuestionPayload EXCEPT !.type = Some("single_choice")],
     [NoQuestionPayload EXCEPT
        !.type = Some("numeric"), !.label = Some("Years"), !.required = Some(FALSE),
        !.validation = Some([maxValue |-> Some(40)])]}

\* Partial<AssessmentQuestion>: an edit of label and required, a change of
\* type alone, and a change of type as the question editor sends it (with
\* `choices: undefined` for a type without choices)
QuestionUpdates ==
    {[label |-> "Edited", required |-> FALSE],
     [type |-> "numeric"],
     [type |-> "numeric", choices |-> None]}

ValidationUpdates == {[maxLength |-> Some(5), minValue |-> Some(1)]}

Conditionals(a) ==
    {None} \cup {Some([questionId |-> target, equals |-> EqStr(S_yes)]) :
                    target \in QuestionIds(a)}

\* QuestionChoice[]: two choices, one choice
ChoiceLists == {<<ChoiceNo, ChoiceYes>>, <<ChoiceYes>>}

RECURSIVE SeqsOfLen(_, _)
SeqsOfLen(S, n) ==
    IF n = 0 THEN {<<>>}
    ELSE {<<x>> \o s : x \in S, s \in SeqsOfLen(S, n - 1)}

\* the identifier lists given to a reorder: every list of known identifiers
\* up to the bound (repeats included), and one naming an unknown identifier
OrderLists(ids) ==
    UNION {SeqsOfLen(ids, n) : n \in 1..MaxOrderLen} \cup {<<0>>}

---------------------------------------------------------------------------
(* Builder store: state and synchronous mutations                          *)

NoOp == [name |-> "none"]
NoneApplied == [seq |-> 0, newest |-> 0]
NoneSettled == [seq |-> 0, kind |-> "none", outcome |-> "none", caught |-> FALSE]

\* create(...): the store as constructed
StoreInit ==
    /\ selectedJobId = None
    /\ assessment = None
    /\ isLoading = FALSE
    /\ isPersisting = FALSE
    /\ error = None
    /\ calls = {}
    /\ started = 0
    /\ applied = NoneApplied
    /\ settled = NoneSettled
    /\ lastOp = NoOp

\* set((state) => ...) of a mutation: every mutation returns the state as it
\* is when no assessment is loaded
Mutate(next, op) ==
    /\ IsSome(assessment)
    /\ budget > 0
    /\ budget' = budget - 1
    /\ assessment' = Some(next)
    /\ lastOp' = [op EXCEPT !.before = Get(assessment),
                            !.after = next,
                            !.during = {call.seq : call \in {c \in calls : c.kind = "persist"}}]
    /\ UNCHANGED <<selectedJobId, isLoading, isPersisting, error, calls, started, applied, settled,
                   dbAssessments, dbSubmissions, submissionKey, now, visVars, formVars>>

Op(name, target, arg) ==
    [name |-> name, target |-> target, arg |-> arg, before |-> 0, after |-> 0, during |-> {}]

UpdateMetadata ==
    \E updates \in MetadataUpdates :
        /\ IsSome(assessment)
        /\ Mutate(updateMetadata(Get(assessment), updates), Op("updateMetadata", 0, <<>>))
        /\ UNCHANGED nextId

AddSection ==
    \E payload \in SectionPayloads :
        /\ IsSome(assessment)
        /\ Mutate(addSection(Get(assessment), payload, nextId), Op("addSection", nextId, <<>>))
        /\ nextId' = nextId + 1

UpdateSection ==
    /\ IsSome(assessment)
    /\ \E sectionId \in SectionIds(Get(assessment)), updates \in SectionUpdates :
        /\ Mutate(updateSection(Get(assessment), sectionId, updates),
                  Op("updateSection", sectionId, <<>>))
        /\ UNCHANGED nextId

RemoveSection ==
    /\ IsSome(assessment)
    /\ \E sectionId \in SectionIds(Get(assessment)) \cup {0} :
        /\ Mutate(removeSection(Get(assessment), sectionId),
                  Op("removeSection", sectionId, <<>>))
        /\ UNCHANGED nextId

ReorderSections ==
    /\ IsSome(assessment)
    /\ \E sectionOrder \in OrderLists(SectionIds(Get(assessment))) :
        /\ Mutate(reorderSections(Get(assessment), sectionOrder),
                  Op("reorderSections", 0, sectionOrder))
        /\ UNCHANGED nextId

AddQuestion ==
    /\ IsSome(assessment)
    /\ \E sectionId \in SectionIds(Get(assessment)), payload \in QuestionPayloads :
        /\ Mutate(addQuestion(Get(assessment), sectionId, payload, nextId),
                  Op("addQuestion", sectionId, <<>>))
        /\ nextId' = nextId + IdsOfAddQuestion(Get(assessment), sectionId, payload)

UpdateQuestion ==
    /\ IsSome(assessment)
    /\ \E questionId \in QuestionIds(Get(assessment)), updates \in QuestionUpdates :
        /\ Mutate(updateQuestion(Get(assessment), questionId, updates),
                  Op("updateQuestion", questionId, <<>>))
        /\ UNCHANGED nextId

UpdateQuestionValidation ==
    /\ IsSome(assessment)
    /\ \E questionId \in QuestionIds(Get(assessment)), validation \in ValidationUpdates :
        /\ Mutate(updateQuestionValidation(Get(assessment), questionId, validation),
                  Op("updateQuestionValidation", questionId, <<>>))
        /\ UNCHANGED nextId

UpdateQuestionConditional ==
    /\ IsSome(assessment)
    /\ \E questionId \in QuestionIds(Get(assessment)),
          conditional \in Conditionals(Get(assessment)) :
        /\ Mutate(updateQuestionConditional(Get(assessment), questionId, conditional),
                  Op("updateQuestionConditional", questionId, <<>>))
        /\ UNCHANGED nextId

SetQuestionChoices ==
    /\ IsSome(assessment)
    /\ \E questionId \in QuestionIds(Get(assessment)), choices \in ChoiceLists :
        /\ Mutate(setQuestionChoices(Get(assessment), questionId, choices),
                  Op("setQuestionChoices", questionId, <<>>))
        /\ UNCHANGED nextId

RemoveQuestion ==
    /\ IsSome(assessment)
    /\ \E questionId \in QuestionIds(Get(assessment)) \cup {0} :
        /\ Mutate(removeQuestion(Get(assessment), questionId),
                  Op("removeQuestion", questionId, <<>>))
        /\ UNCHANGED nextId

ReorderQuestions ==
    /\ IsSome(assessment)
    /\ \E i \in 1..Len(Get(assessment).sections) :
        LET section == Get(assessment).sections[i]
        IN  \E questionOrder \in OrderLists({q.id : q \in Range(section.questions)}) :
                /\ Mutate(reorderQuestions(Get(assessment), section.id, questionOrder),
                          Op("reorderQuestions", section.id, questionOrder))
                /\ UNCHANGED nextId

DuplicateQuestion ==
    /\ IsSome(assessment)
    /\ \E questionId \in QuestionIds(Get(assessment)) \cup {0} :
        /\ Mutate(duplicateQuestion(Get(assessment), questionId, nextId),
                  Op("duplicateQuestion", questionId, <<nextId>>))
        /\ nextId' = nextId + IdsOfDuplicate(Get(assessment), questionId)

MutationStep ==
    \/ UpdateMetadata
    \/ AddSection
    \/ UpdateSection
    \/ RemoveSection
    \/ ReorderSections
    \/ AddQuestion
    \/ UpdateQuestion
    \/ UpdateQuestionValidation
    \/ UpdateQuestionConditional
    \/ SetQuestionChoices
    \/ RemoveQuestion
    \/ ReorderQuestions
    \/ DuplicateQuestion

\* the visibility harness at rest
VisIdle == pq = [id |-> 0, conditionalLogic |-> None] /\ pvalues = <<>> /\ pout = None

\* the submission page is not mounted
NoAttempts == [edits |-> 0, started |-> 0, submitted |-> 0, failed |-> 0]
FormIdle ==
    /\ pageAssessment = None
    /\ pageIsLoading = FALSE
    /\ pageError = None
    /\ formValues = [candidateName |-> <<>>, candidateEmail |-> <<>>, answers |-> <<>>]
    /\ formErrors = {}
    /\ isSubmitting = FALSE
    /\ toast = "none"
    /\ request = None
    /\ attempts = NoAttempts

\* The mutation engine on a loaded assessment: the store after initialize(j1)
\* has completed on a repository that holds a saved assessment for the job.
BuilderInit ==
    /\ VisIdle
    /\ FormIdle
    /\ dbAssessments = [j \in Jobs |-> Some(SavedAssessment(j))]
    /\ dbSubmissions = <<>>
    /\ submissionKey = 0
    /\ nextId = FirstFreshId
    /\ now = 1
    /\ selectedJobId = Some("j1")
    /\ assessment = dbAssessments["j1"]
    /\ isLoading = FALSE
    /\ isPersisting = FALSE
    /\ error = None
    /\ calls = {}
    /\ started = 1
    /\ applied = [seq |-> 1, newest |-> 1]
    /\ settled = [seq |-> 1, kind |-> "initialize", outcome |-> "resolved", caught |-> FALSE]
    /\ lastOp = NoOp
    /\ budget = MaxMutations

SpecBuilder == BuilderInit /\ [][MutationStep]_vars

---------------------------------------------------------------------------
(* Properties of the builder mutation engine                               *)

\* C4: after any sequence of builder mutations applied to a loaded assessment,
\* the sections' `order` values are 0..n-1 and equal to list position, and in
\* every section the questions' `order` values are 0..m-1 and equal to list
\* position.
C4_OrdersDense ==
    IsSome(assessment) =>
        LET sections == Get(assessment).sections
        IN  \A i \in 1..Len(sections) :
                /\ sections[i].order = i - 1
                /\ \A k \in 1..Len(sections[i].questions) :
                        sections[i].questions[k].order = k - 1

\* A section was removed and one was then added again.
C4_Witness ==
    /\ lastOp.name = "addSection"
    /\ Len(lastOp.before.sections) = 1
    /\ Len(Get(assessment).sections) = 2

\* two entities that differ at most in `order`
SameButOrder(x, y) == [x EXCEPT !.order = 0] = [y EXCEPT !.order = 0]

\* `after` lists first the entities of `before` that `order` names, in the
\* order given, then the entities it does not name in their previous relative
\* order, renumbered from 0; and no entity of `before` is lost: `after` holds
\* each of them at least as many times as `before` does.
ReorderedAs(before, after, order) ==
    LET known == {before[i].id : i \in 1..Len(before)}
        IsKnown(id) == id \in known
        named == SelectSeq(order, IsKnown)
        IsUnnamed(item) == \A k \in 1..Len(order) : order[k] # item.id
        unnamed == SelectSeq(before, IsUnnamed)
    IN  /\ Len(after) = Len(named) + Len(unnamed)
        /\ \A k \in 1..Len(named) :
                /\ after[k].id = named[k]
                /\ \E i \in 1..Len(before) : SameButOrder(before[i], after[k])
        /\ \A r \in 1..Len(unnamed) : SameButOrder(after[Len(named) + r], unnamed[r])
        /\ \A k \in 1..Len(after) : after[k].order = k - 1
        /\ \A i \in 1..Len(before) :
                Cardinality({j \in 1..Len(before) : SameButOrder(before[j], before[i])})
                    <= Cardinality({k \in 1..Len(after) : SameButOrder(after[k], before[i])})

\* C5: reorderSections(orderedIds) and reorderQuestions(sectionId, orderedIds)
\* place the named entities first in the given order, then every entity not
\* named in its previous relative order, then renumber `order` from 0; no
\* section or question is lost, and nothing else changes.
C5_ReorderPlacesNamedFirst ==
    /\ lastOp.name = "reorderSections" =>
            /\ ReorderedAs(lastOp.before.sections, Get(assessment).sections, lastOp.arg)
            /\ [Get(assessment) EXCEPT !.sections = <<>>]
                    = [lastOp.before EXCEPT !.sections = <<>>]
    /\ lastOp.name = "reorderQuestions" =>
            LET before == lastOp.before.sections
                after == Get(assessment).sections
            IN  /\ Len(after) = Len(before)
                /\ \A i \in 1..Len(before) :
                        IF before[i].id = lastOp.target
                        THEN /\ ReorderedAs(before[i].questions, after[i].questions, lastOp.arg)
                             /\ [after[i] EXCEPT !.questions = <<>>]
                                    = [before[i] EXCEPT !.questions = <<>>]
                        ELSE after[i] = before[i]

\* reorderSections([s2, s1]) on [s1, s2, s3] gave [s2(0), s1(1), s3(2)].
C5_Witness ==
    /\ lastOp.name = "reorderSections"
    /\ lastOp.arg = <<2, 1>>
    /\ [i \in 1..Len(lastOp.before.sections) |-> lastOp.before.sections[i].id]
            = <<1, 2, FirstFreshId>>
    /\ [i \in 1..Len(Get(assessment).sections) |->
            <<Get(assessment).sections[i].id, Get(assessment).sections[i].order>>]
            = <<<<2, 0>>, <<1, 1>>, <<FirstFreshId, 2>>>>

\* every identifier an assessment uses
UsedIds(a) ==
    {a.id} \cup SectionIds(a) \cup QuestionIds(a)
        \cup UNION {IF IsSome(q.choices) THEN {c.id : c \in Range(Get(q.choices))} ELSE {} :
                        q \in Range(AllQuestions(a))}

\* `clone` is `original` with a new identifier, the given order, and choices
\* that carry new, distinct identifiers and the same labels and values
IsCloneOf(clone, original, order, used) ==
    /\ clone.id \notin used
    /\ clone.order = order
    /\ [clone EXCEPT !.id = 0, !.order = 0, !.choices = None]
            = [original EXCEPT !.id = 0, !.order = 0, !.choices = None]
    /\ IsSome(clone.choices) = IsSome(original.choices)
    /\ IsSome(original.choices) =>
            LET cs == Get(clone.choices)
                os == Get(original.choices)
            IN  /\ Len(cs) = Len(os)
                /\ \A k \in 1..Len(os) :
                        /\ cs[k].label = os[k].label
                        /\ cs[k].value = os[k].value
                        /\ cs[k].id \notin used
                        /\ cs[k].id # clone.id
                        /\ \A m \in 1..Len(os) : m # k => cs[m].id # cs[k].id

\* C6: duplicateQuestion(id) appends to the question's section a clone with a
\* new identifier, `order` equal to the section's previous question count,
\* choices with new identifiers and the same labels and values in the same
\* order, and every other field equal to the original's; the original and all
\* other questions are unchanged.
C6_DuplicateClones ==
    lastOp.name = "duplicateQuestion" =>
        LET before == lastOp.before.sections
            after == Get(assessment).sections
        IN  /\ [Get(assessment) EXCEPT !.sections = <<>>]
                    = [lastOp.before EXCEPT !.sections = <<>>]
            /\ Len(after) = Len(before)
            /\ \A i \in 1..Len(before) :
                    LET index == FindIndex(before[i].questions, lastOp.target)
                        count == Len(before[i].questions)
                    IN  IF index = 0 THEN after[i] = before[i]
                        ELSE /\ [after[i] EXCEPT !.questions = <<>>]
                                    = [before[i] EXCEPT !.questions = <<>>]
                             /\ Len(after[i].questions) = count + 1
                             /\ SubSeq(after[i].questions, 1, count) = before[i].questions
                             /\ IsCloneOf(after[i].questions[count + 1],
                                          before[i].questions[index], count,
                                          UsedIds(lastOp.before))

\* The three-choice question was duplicated: its section now ends with the clone.
C6_Witness ==
    /\ lastOp.name = "duplicateQuestion"
    /\ \E i \in 1..Len(lastOp.before.sections) :
        LET qs == lastOp.before.sections[i].questions
            index == FindIndex(qs, lastOp.target)
        IN  /\ index > 0
            /\ IsSome(qs[index].choices)
            /\ Len(Get(qs[index].choices)) = 3
            /\ Len(Get(assessment).sections[i].questions) = Len(qs) + 1

---------------------------------------------------------------------------
(* Builder store: asynchronous calls (initialize, refresh, persist), the   *)
(* PUT handler behind persist, and reset                                   *)

NoResponse == [ok |-> FALSE, data |-> None, message |-> ""]

Call(seq, kind, jobId, stage, body) ==
    [seq |-> seq, kind |-> kind, jobId |-> jobId, stage |-> stage, body |-> body,
     response |-> NoResponse]

\* AssessmentBuilder's effect: initialize(jobId) is called for the job of the
\* route unless that job is already selected or a load is in progress
InitializeEffectGuard(jobId) == ~(selectedJobId = Some(jobId) \/ isLoading)

\* initialize, up to its first await
Initialize ==
    \E jobId \in Jobs :
        /\ InitializeEffectGuard(jobId)
        /\ started < MaxCalls
        /\ started' = started + 1
        /\ isLoading' = TRUE
        /\ error' = None
        /\ calls' = calls \cup {Call(started + 1, "initialize", jobId, "pending", None)}
        /\ UNCHANGED <<selectedJobId, assessment, isPersisting, applied, settled, budget, lastOp,
                       envVars, visVars, formVars>>

\* initialize, from the repository's answer on: ensureForJob, then set
InitializeDone ==
    \E call \in calls :
        /\ call.kind = "initialize"
        /\ dbAssessments' = EnsureTable(dbAssessments, call.jobId, nextId, now)
        /\ nextId' = nextId + IdsOfEnsure(dbAssessments, call.jobId)
        /\ now' = IF IsSome(dbAssessments[call.jobId]) THEN now ELSE now + 1
        /\ selectedJobId' = Some(call.jobId)
        /\ assessment' = Some(EnsureResult(dbAssessments, call.jobId, nextId, now))
        /\ isLoading' = FALSE
        /\ applied' = [seq |-> call.seq, newest |-> started]
        /\ settled' = [seq |-> call.seq, kind |-> call.kind, outcome |-> "resolved", caught |-> FALSE]
        /\ calls' = calls \ {call}
        /\ UNCHANGED <<isPersisting, error, started, budget, lastOp, dbSubmissions, submissionKey, visVars, formVars>>

\* initialize, when the repository rejects (the database cannot be opened or read)
InitializeFail ==
    \E call \in calls :
        /\ call.kind = "initialize"
        /\ isLoading' = FALSE
        /\ error' = Some("Failed to load assessment")
        /\ calls' = calls \ {call}
        /\ settled' = [seq |-> call.seq, kind |-> call.kind, outcome |-> "resolved", caught |-> TRUE]
        /\ UNCHANGED <<applied, selectedJobId, assessment, isPersisting, started, budget,
                       lastOp, envVars, visVars, formVars>>

\* refresh, up to its await
Refresh ==
    /\ IsSome(selectedJobId)
    /\ started < MaxCalls
    /\ started' = started + 1
    /\ isLoading' = TRUE
    /\ error' = None
    /\ calls' = calls \cup {Call(started + 1, "refresh", Get(selectedJobId), "pending", None)}
    /\ UNCHANGED <<selectedJobId, assessment, isPersisting, applied, settled, budget, lastOp,
                   envVars, visVars, formVars>>

RefreshDone ==
    \E call \in calls :
        /\ call.kind = "refresh"
        /\ assessment' = getAssessmentByJobId(dbAssessments, call.jobId)
        /\ isLoading' = FALSE
        /\ applied' = [seq |-> call.seq, newest |-> started]
        /\ settled' = [seq |-> call.seq, kind |-> call.kind, outcome |-> "resolved", caught |-> FALSE]
        /\ calls' = calls \ {call}
        /\ UNCHANGED <<selectedJobId, isPersisting, error, started, budget, lastOp,
                       envVars, visVars, formVars>>

RefreshFail ==
    \E call \in calls :
        /\ call.kind = "refresh"
        /\ isLoading' = FALSE
        /\ error' = Some("Failed to refresh assessment")
        /\ calls' = calls \ {call}
        /\ settled' = [seq |-> call.seq, kind |-> call.kind, outcome |-> "resolved", caught |-> TRUE]
        /\ UNCHANGED <<applied, selectedJobId, assessment, isPersisting, started, budget,
                       lastOp, envVars, visVars, formVars>>

\* persist, up to the fetch: the request body is the assessment as it is now
Persist ==
    /\ IsSome(assessment)
    /\ started < MaxCalls
    /\ started' = started + 1
    /\ isPersisting' = TRUE
    /\ error' = None
    /\ calls' = calls \cup
            {Call(started + 1, "persist", Get(assessment).jobId, "sent", assessment)}
    /\ UNCHANGED <<selectedJobId, assessment, isLoading, applied, settled, budget, lastOp,
                   envVars, visVars, formVars>>

\* withNetwork: shouldFail() answers 503 without running the handler
PutNetworkFailure ==
    \E call \in calls :
        /\ call.kind = "persist"
        /\ call.stage = "sent"
        /\ calls' = (calls \ {call}) \cup
                {[call EXCEPT !.stage = "responded",
                              !.response = [ok |-> FALSE, data |-> None,
                                            message |-> "Simulated network instability"]]}
        /\ UNCHANGED <<selectedJobId, assessment, isLoading, isPersisting, error, started,
                       applied, settled, budget, lastOp, envVars, visVars, formVars>>

\* the PUT handler without `jobId` after the spread of the payload
PutRecordOfPayloadJob(baseline, payload, jobId) == Merge(baseline, payload)

\* the record the PUT handler hands to upsert:
\* { ...baseline, ...payload, jobId, sections: payload.sections ?? baseline.sections }
PutRecord(baseline, payload, jobId) ==
    [Merge(baseline, payload) EXCEPT !.jobId = jobId]

\* PUT /api/assessments/:jobId with a payload
PutHandler ==
    \E call \in calls :
        /\ call.kind = "persist"
        /\ call.stage = "sent"
        /\ LET created == ~IsSome(dbAssessments[call.jobId])
               time == IF created THEN now + 1 ELSE now
               baseline == EnsureResult(dbAssessments, call.jobId, nextId, now)
               ensured == EnsureTable(dbAssessments, call.jobId, nextId, now)
               updated == PutRecord(baseline, Get(call.body), call.jobId)
               saved == UpsertRecord(updated, time)
           IN  /\ dbAssessments' = upsertAssessment(ensured, updated, time)
               /\ nextId' = nextId + IdsOfEnsure(dbAssessments, call.jobId)
               /\ now' = time + 1
               /\ calls' = (calls \ {call}) \cup
                        {[call EXCEPT !.stage = "responded",
                                      !.response = [ok |-> TRUE, data |-> Some(saved),
                                                    message |-> ""]]}
        /\ UNCHANGED <<selectedJobId, assessment, isLoading, isPersisting, error, started,
                       applied, settled, budget, lastOp, dbSubmissions, submissionKey, visVars, formVars>>

\* persist, after an ok response: set({ assessment: payload.data, isPersisting: false })
PersistOk ==
    \E call \in calls :
        /\ call.kind = "persist"
        /\ call.stage = "responded"
        /\ call.response.ok
        /\ assessment' = call.response.data
        /\ isPersisting' = FALSE
        /\ applied' = [seq |-> call.seq, newest |-> started]
        /\ settled' = [seq |-> call.seq, kind |-> call.kind, outcome |-> "resolved", caught |-> FALSE]
        /\ calls' = calls \ {call}
        /\ UNCHANGED <<selectedJobId, isLoading, error, started, budget, lastOp,
                       envVars, visVars, formVars>>

\* persist whose catch block restores the document it sent, dropping the edits
\* made while the request was in flight
PersistFailRestoresSent ==
    \E call \in calls :
        /\ call.kind = "persist"
        /\ call.stage = "responded"
        /\ ~call.response.ok
        /\ isPersisting' = FALSE
        /\ error' = Some(call.response.message)
        /\ assessment' = call.body
        /\ calls' = calls \ {call}
        /\ settled' = [seq |-> call.seq, kind |-> call.kind, outcome |-> "rejected", caught |-> TRUE]
        /\ UNCHANGED <<applied, selectedJobId, isLoading, started, budget, lastOp,
                       envVars, visVars, formVars>>

\* persist, after a response that is not ok: the error is recorded and rethrown
PersistFail ==
    \E call \in calls :
        /\ call.kind = "persist"
        /\ call.stage = "responded"
        /\ ~call.response.ok
        /\ isPersisting' = FALSE
        /\ error' = Some(call.response.message)
        /\ calls' = calls \ {call}
        /\ settled' = [seq |-> call.seq, kind |-> call.kind, outcome |-> "rejected", caught |-> TRUE]
        /\ UNCHANGED <<applied, selectedJobId, assessment, isLoading, started, budget, lastOp,
                       envVars, visVars, formVars>>

\* reset: set({ selectedJobId: null, assessment: null })
Reset ==
    /\ IsSome(selectedJobId) \/ IsSome(assessment)
    /\ selectedJobId' = None
    /\ assessment' = None
    /\ UNCHANGED <<isLoading, isPersisting, error, calls, started, applied, settled, budget, lastOp,
                   envVars, visVars, formVars>>

\* The builder session: the store as constructed, over a repository that holds
\* a saved assessment for every job.
SessionInit ==
    /\ VisIdle
    /\ FormIdle
    /\ StoreInit
    /\ budget = MaxSessionMutations
    /\ dbAssessments = [j \in Jobs |-> Some(SavedAssessment(j))]
    /\ dbSubmissions = <<>>
    /\ submissionKey = 0
    /\ nextId = FirstFreshId
    /\ now = 1

\* the unsaved edit of a session: the builder's title/status form calling
\* updateMetadata while requests are in flight
SessionMutationStep ==
    UpdateMetadata

SessionNext ==
    \/ Initialize
    \/ InitializeDone
    \/ InitializeFail
    \/ Refresh
    \/ RefreshDone
    \/ RefreshFail
    \/ Persist
    \/ PutNetworkFailure
    \/ PutHandler
    \/ PersistOk
    \/ PersistFail
    \/ Reset
    \/ SessionMutationStep

SpecSession == SessionInit /\ [][SessionNext]_vars

---------------------------------------------------------------------------
(* Properties of the builder session                                       *)

\* The document of an assessment: everything but the repository's timestamps
Document(a) == [a EXCEPT !.createdAt = 0, !.updatedAt = 0]

\* C9: a mutation applied to the in-memory assessment while a persist is in
\* flight is still present in the in-memory assessment after that persist
\* completes: when the completion of a persist finds the assessment as the
\* in-flight mutation left it, the completion leaves its document unchanged.
C9_PersistKeepsInFlightMutation ==
    [][\A call \in calls :
            (/\ call.kind = "persist"
             /\ call.stage = "responded"
             /\ call \notin calls'
             /\ lastOp.name # "none"
             /\ call.seq \in lastOp.during
             /\ assessment = Some(lastOp.after))
            => /\ IsSome(assessment')
               /\ Document(Get(assessment')) = Document(lastOp.after)]_vars

\* C10: the result of a load or persist is never applied to the store after a
\* newer load or persist has been started: whenever a result has been applied,
\* the call it belongs to was the newest call started at that moment.
C10_SupersededResultDiscarded == applied.seq = applied.newest

\* C11: a persist, initialize or refresh that fails leaves the in-memory
\* assessment, unsaved edits included, as it was: the step in which the call's
\* catch block runs does not change `assessment`, records a message in `error`
\* and clears the call's flag (isPersisting for persist, isLoading for
\* initialize and refresh); the promise of a failed persist rejects to its
\* caller, that of a failed initialize or refresh resolves.
C11_FailureKeepsAssessment ==
    [][(settled'.seq # settled.seq /\ settled'.caught)
        => /\ assessment' = assessment
           /\ IsSome(error')
           /\ IF settled'.kind = "persist"
                THEN isPersisting' = FALSE /\ settled'.outcome = "rejected"
                ELSE isLoading' = FALSE /\ settled'.outcome = "resolved"]_vars

\* a persist has failed while the store holds an edit that was never saved,
\* and a load has failed as well
C11_Witness ==
    /\ settled.caught
    /\ settled.kind = "persist"
    /\ settled.outcome = "rejected"
    /\ lastOp.name = "updateMetadata"
    /\ assessment = Some(lastOp.after)
    /\ Document(lastOp.after) # Document(SavedAssessment(lastOp.after.jobId))
    /\ dbAssessments[lastOp.after.jobId] = Some(SavedAssessment(lastOp.after.jobId))
    /\ ~isPersisting
    /\ IsSome(error)

---------------------------------------------------------------------------
(* Visibility evaluator: AssessmentSubmit.tsx isQuestionVisible            *)

\* the same function with `some` written as `every`
isQuestionVisibleEvery(question, values) ==
    IF ~IsSome(question.conditionalLogic) THEN TRUE
    ELSE
        LET cl == Get(question.conditionalLogic)
            targetValue == ValueOf(values, cl.questionId)
            equals == cl.equals
        IN  IF targetValue.k \in {"undefined", "null"} THEN FALSE
            ELSE IF equals.k = "array"
            THEN IF targetValue.k = "array"
                 THEN \A i \in 1..Len(targetValue.a) : Includes(equals.a, targetValue.a[i])
                 ELSE targetValue.k = "string" /\ Includes(equals.a, targetValue.s)
            ELSE IF targetValue.k = "array"
                 THEN Includes(targetValue.a, equals.s)
                 ELSE targetValue.k = "string" /\ targetValue.s = equals.s

isQuestionVisible(question, values) ==
    IF ~IsSome(question.conditionalLogic) THEN TRUE
    ELSE
        LET cl == Get(question.conditionalLogic)
            targetValue == ValueOf(values, cl.questionId)
            equals == cl.equals
        IN  IF targetValue.k \in {"undefined", "null"} THEN FALSE
            ELSE IF equals.k = "array"
            THEN IF targetValue.k = "array"
                 \* targetValue.some((value) => equals.includes(value))
                 THEN \E i \in 1..Len(targetValue.a) : Includes(equals.a, targetValue.a[i])
                 \* equals.includes(targetValue): a number or a File is never
                 \* strictly equal to a string
                 ELSE targetValue.k = "string" /\ Includes(equals.a, targetValue.s)
            ELSE IF targetValue.k = "array"
                 THEN Includes(targetValue.a, equals.s)
                 \* targetValue === equals
                 ELSE targetValue.k = "string" /\ targetValue.s = equals.s

---------------------------------------------------------------------------
(* Harness of the visibility evaluator: the inputs are drawn from bounded  *)
(* sets, an answer may change, and every change is followed by a           *)
(* re-evaluation.                                                          *)

VisStrings == {S_empty, S_x, S_yes, S_no}
VisArrays == {<<>>, <<S_x>>, <<S_yes>>, <<S_x, S_yes>>, <<S_no, S_x>>, <<S_no>>}
VisValues ==
    {Undefined, Null, NumV(1), FileV(S_x, "image/png", 1)}
        \cup {StrV(s) : s \in VisStrings}
        \cup {ArrV(a) : a \in VisArrays}
VisConditionals ==
    {None}
        \cup {Some([questionId |-> t, equals |-> EqStr(s)]) :
                t \in {1, 2}, s \in VisStrings}
        \cup {Some([questionId |-> t, equals |-> EqArr(a)]) :
                t \in {1, 2}, a \in VisArrays}

VisInit ==
    /\ StoreInit
    /\ FormIdle
    /\ budget = 0
    /\ dbAssessments = [j \in Jobs |-> None]
    /\ dbSubmissions = <<>>
    /\ submissionKey = 0
    /\ nextId = FirstFreshId
    /\ now = 0
    /\ pq \in {[id |-> 3, conditionalLogic |-> c] : c \in VisConditionals}
    /\ pvalues \in {[i \in {1} |-> v] : v \in VisValues}
    /\ pout = None

VisEvaluate ==
    /\ pout = None
    /\ pout' = Some(isQuestionVisible(pq, pvalues))
    /\ UNCHANGED <<pq, pvalues, storeVars, envVars, formVars>>

VisChangeAnswer ==
    /\ IsSome(pout)
    /\ \E v \in VisValues :
        /\ v # pvalues[1]
        /\ pvalues' = [pvalues EXCEPT ![1] = v]
    /\ pout' = None
    /\ UNCHANGED <<pq, storeVars, envVars, formVars>>

VisNext == VisEvaluate \/ VisChangeAnswer

SpecVis == VisInit /\ [][VisNext]_vars

\* The reference rule of the visibility evaluator, on sets.
RefStrings(value) ==
    IF value.k = "array" THEN Range(value.a)
    ELSE IF value.k = "string" THEN {value.s}
    ELSE {}

RefVisible(question, values) ==
    \/ question.conditionalLogic = None
    \/ /\ question.conditionalLogic # None
       /\ LET cl == question.conditionalLogic[1]
              target == ValueOf(values, cl.questionId)
          IN  /\ target # Null
              /\ target # Undefined
              /\ RefStrings(target) \cap RefStrings(cl.equals) # {}

\* C1: isQuestionVisible(question, values) equals the reference rule for every
\* question and form state: no conditional logic -> visible; target value
\* null/undefined -> hidden; `equals` a list -> visible iff the target value is
\* in the list or shares an element with it; `equals` a string -> visible iff
\* the target value equals it or (list-valued) contains it.
C1_VisibleMatchesRule ==
    IsSome(pout) => (Get(pout) <=> RefVisible(pq, pvalues))

\* A list-valued target sharing only some of its elements with a list-valued
\* `equals` has been evaluated, and found visible.
C1_Witness ==
    /\ IsSome(pout)
    /\ Get(pout) = TRUE
    /\ IsSome(pq.conditionalLogic)
    /\ Get(pq.conditionalLogic).questionId = 1
    /\ Get(pq.conditionalLogic).equals = EqArr(<<S_x, S_yes>>)
    /\ pvalues[1] = ArrV(<<S_no, S_x>>)

---------------------------------------------------------------------------
(* Submission form: AssessmentSubmit.tsx, pure parts                       *)

\* questionDefaultValue with a single-choice question preselected on its
\* first choice
questionDefaultValueFirstChoice(question) ==
    CASE question.type = "multi_choice" -> ArrV(<<>>)
      [] question.type = "numeric" -> StrV(S_empty)
      [] question.type = "file_upload" -> Null
      [] question.type = "single_choice" /\ IsSome(question.choices) ->
            StrV(Get(question.choices)[1].value)
      [] OTHER -> StrV(S_empty)

\* questionDefaultValue
questionDefaultValue(question) ==
    CASE question.type = "multi_choice" -> ArrV(<<>>)
      [] question.type = "numeric" -> StrV(S_empty)
      [] question.type = "file_upload" -> Null
      [] OTHER -> StrV(S_empty)

\* ensureArray: the string entries of an array, [] for anything else
ensureArray(value) == IF value.k = "array" THEN value.a ELSE <<>>

\* trimString: value.trim() for a string, '' for anything else
trimString(value) == IF value.k = "string" THEN Trim(value.s) ELSE S_empty

\* isChoiceValid
isChoiceValid(choices, value) ==
    \/ ~IsSome(choices)
    \/ \E i \in 1..Len(Get(choices)) : Get(choices)[i].value = value

\* areChoicesValid
areChoicesValid(choices, values) ==
    \/ ~IsSome(choices)
    \/ LET allowed == {Get(choices)[i].value : i \in 1..Len(Get(choices))}
       IN  \A i \in 1..Len(values) : values[i] \in allowed

\* [...items].sort((a, b) => a.order - b.order): a stable sort by `order`
\* (the first of the least items is taken out, and the rest sorted the same way)
RECURSIVE SortByOrder(_)
SortByOrder(items) ==
    CHOOSE sorted \in
        {IF xs = <<>> THEN <<>>
         ELSE CHOOSE taken \in
                {<<xs[least]>> \o
                    SortByOrder([k \in 1..(Len(xs) - 1) |->
                                    IF k < least THEN xs[k] ELSE xs[k + 1]]) :
                 least \in {i \in 1..Len(xs) :
                                /\ \A j \in 1..Len(xs) : xs[i].order <= xs[j].order
                                /\ \A j \in 1..(i - 1) : xs[j].order > xs[i].order}} : TRUE :
         xs \in {items}} : TRUE

\* orderedSections and orderedQuestions
orderedSections(a) == SortByOrder(a.sections)

orderedQuestions(a) ==
    LET RECURSIVE FlatSorted(_, _)
        FlatSorted(ss, i) ==
            IF i > Len(ss) THEN <<>>
            ELSE SortByOrder(ss[i].questions) \o FlatSorted(ss, i + 1)
    IN  CHOOSE flat \in {FlatSorted(ss, 1) : ss \in {orderedSections(a)}} : TRUE

\* createDefaultValues
createDefaultValues(questions) ==
    CHOOSE values \in
        {[candidateName |-> S_empty, candidateEmail |-> S_empty,
          answers |-> [id \in {qs[i].id : i \in 1..Len(qs)} |->
                        questionDefaultValue(
                            qs[CHOOSE i \in 1..Len(qs) :
                                    /\ qs[i].id = id
                                    /\ \A j \in (i + 1)..Len(qs) : qs[j].id # id])]] :
         qs \in {questions}} : TRUE

\* isEqualValue without the branch for arrays: two arrays are never ===
isEqualValueByIdentity(current, expected) ==
    /\ current.k = expected.k
    /\ current.k \notin {"file", "array"}
    /\ current = expected

\* isEqualValue: arrays element by element, everything else by ===
isEqualValue(current, expected) ==
    IF current.k = "array" /\ expected.k = "array"
    THEN /\ Len(current.a) = Len(expected.a)
         /\ \A i \in 1..Len(current.a) : current.a[i] = expected.a[i]
    ELSE /\ current.k = expected.k
         /\ current.k # "file"
         /\ current = expected

Digits == <<"0", "1", "2", "3", "4", "5", "6", "7", "8", "9">>

\* Number(text): the whitespace is trimmed, '' is 0, a decimal integer with an
\* optional sign is its value, anything else is NaN (None)
Number(text) ==
    LET trimmed == Trim(text)
        negative == trimmed # <<>> /\ Head(trimmed) = "-"
        digits == IF negative THEN Tail(trimmed) ELSE trimmed
        DigitOf(c) == (CHOOSE d \in 1..10 : Digits[d] = c) - 1
        RECURSIVE Value(_, _)
        Value(ds, acc) ==
            IF ds = <<>> THEN acc ELSE Value(Tail(ds), 10 * acc + DigitOf(Head(ds)))
    IN  IF trimmed = <<>> THEN Some(0)
        ELSE IF digits = <<>> \/ \E i \in 1..Len(digits) : digits[i] \notin Range(Digits)
        THEN None
        ELSE Some(IF negative THEN 0 - Value(digits, 0) ELSE Value(digits, 0))

\* z.string().email(): a local part, one "@", and a domain with a dot in it
IsEmail(text) ==
    \E at \in 2..(Len(text) - 1) :
        /\ text[at] = "@"
        /\ \A i \in 1..Len(text) : text[i] = "@" => i = at
        /\ \A i \in 1..Len(text) : text[i] # " "
        /\ \E dot \in (at + 2)..(Len(text) - 1) : text[dot] = "."

Issue(field, id, message) == [field |-> field, id |-> id, message |-> message]
QuestionIssue(question, message) == Issue("question", question.id, message)

\* the shape of buildSubmissionSchema: the union of types a question's value
\* may have; a value outside it is an issue that aborts the parse
ShapeKinds(question) ==
    CASE question.type = "single_choice" -> {"string", "undefined"}
      [] question.type = "multi_choice" -> {"array", "undefined"}
      [] question.type = "numeric" -> {"number", "string", "undefined"}
      [] question.type = "file_upload" -> {"file", "null", "undefined"}
      [] OTHER -> {"string", "undefined"}

ShapeIssues(questions, values) ==
    {QuestionIssue(questions[i], "Invalid input") :
        i \in {i \in 1..Len(questions) :
                ValueOf(values.answers, questions[i].id).k \notin ShapeKinds(questions[i])}}

\* candidateName: z.string().min(1); candidateEmail: an email, or ''
CandidateIssues(values) ==
    (IF Len(values.candidateName) >= 1 THEN {}
     ELSE {Issue("candidateName", 0, "Please share your name")})
    \cup
    (IF values.candidateEmail = S_empty \/ IsEmail(values.candidateEmail) THEN {}
     ELSE {Issue("candidateEmail", 0, "Enter a valid email address")})

BytesPerMb == 1048576

\* superRefine, the switch on question.type: the issues of one visible question
QuestionIssues(question, rawValue) ==
    LET Say(condition, message) ==
            IF condition THEN {QuestionIssue(question, message)} ELSE {}
        validation == question.validation
    IN  CASE question.type = "single_choice" ->
                LET stringValue == IF rawValue.k = "string" THEN rawValue.s ELSE S_empty
                IN  Say(question.required /\ stringValue = S_empty, "Select an option")
                    \cup Say(stringValue # S_empty
                                /\ ~isChoiceValid(question.choices, stringValue),
                             "Choose a valid option")
          [] question.type = "multi_choice" ->
                LET valuesArray == ensureArray(rawValue)
                IN  Say(question.required /\ Len(valuesArray) = 0, "Pick at least one option")
                    \cup Say(~areChoicesValid(question.choices, valuesArray),
                             "Choose valid options")
          [] question.type = "numeric" ->
                IF rawValue = StrV(S_empty) \/ rawValue.k \in {"undefined", "null"}
                THEN Say(question.required, "Enter a number")
                ELSE LET number == IF rawValue.k = "number" THEN Some(rawValue.n)
                                   ELSE IF rawValue.k = "string" THEN Number(rawValue.s)
                                   ELSE None
                     IN  IF ~IsSome(number) THEN Say(TRUE, "Enter a valid number")
                         ELSE Say(IsSome(validation.minValue)
                                    /\ Get(number) < Get(validation.minValue),
                                  "Value must be minValue or greater")
                              \cup Say(IsSome(validation.maxValue)
                                        /\ Get(number) > Get(validation.maxValue),
                                       "Value must be maxValue or less")
          [] question.type = "file_upload" ->
                IF rawValue.k # "file"
                THEN Say(question.required, "Upload is required for this step")
                ELSE Say(IsSome(validation.allowedFileTypes)
                            /\ ~Includes(Get(validation.allowedFileTypes), rawValue.type),
                         "Select one of the accepted file types")
                     \cup Say(IsSome(validation.maxFileSizeMb)
                                /\ rawValue.size > Get(validation.maxFileSizeMb) * BytesPerMb,
                              "File must be under maxFileSizeMb MB")
          [] OTHER ->
                LET textValue == trimString(rawValue)
                IN  Say(question.required /\ textValue = S_empty, "This field is required")
                    \cup Say(IsSome(validation.maxLength)
                                /\ Len(textValue) > Get(validation.maxLength),
                             "Keep your answer under maxLength characters")

\* superRefine that also validates the questions that are not visible
RefineIssuesOfAll(questions, values) ==
    UNION {QuestionIssues(questions[i], ValueOf(values.answers, questions[i].id)) :
            i \in 1..Len(questions)}

\* superRefine: the questions that are not visible are skipped
RefineIssues(questions, values) ==
    UNION {QuestionIssues(questions[i], ValueOf(values.answers, questions[i].id)) :
            i \in {i \in 1..Len(questions) : isQuestionVisible(questions[i], values.answers)}}

\* the schema without its superRefine: only the candidate fields are judged
buildSubmissionSchemaCandidateOnly(questions, values) == CandidateIssues(values)

\* buildSubmissionSchema(questions) applied to the form values: a value of the
\* wrong type aborts the parse before superRefine runs
buildSubmissionSchema(questions, values) ==
    IF ShapeIssues(questions, values) # {}
    THEN ShapeIssues(questions, values) \cup CandidateIssues(values)
    ELSE CandidateIssues(values) \cup RefineIssues(questions, values)

\* form.handleSubmit that runs the submit handler whatever the resolver reports
ResolverAcceptsAlways(issues) == TRUE

\* form.handleSubmit: the submit handler runs only when the resolver reports
\* no error
ResolverAccepts(issues) == issues = {}

\* the visible questions of handleSubmit, without the filter
visibleQuestionsUnfiltered(questions, values) == questions

\* handleSubmit: orderedQuestions.filter((question) => isQuestionVisible(question, values))
visibleQuestions(questions, values) ==
    LET IsVisible(question) == isQuestionVisible(question, values.answers)
    IN  SelectSeq(questions, IsVisible)

\* handleSubmit: the answer built for one question
AnswerOf(question, rawValue) ==
    CASE question.type = "single_choice" ->
            [questionId |-> question.id,
             response |-> IF rawValue.k = "string" THEN StrV(rawValue.s) ELSE StrV(S_empty),
             uploadedFileName |-> Undefined]
      [] question.type = "multi_choice" ->
            [questionId |-> question.id, response |-> ArrV(ensureArray(rawValue)),
             uploadedFileName |-> Undefined]
      [] question.type = "numeric" ->
            [questionId |-> question.id,
             response |-> IF rawValue.k = "number" THEN rawValue ELSE Null,
             uploadedFileName |-> Undefined]
      [] question.type = "file_upload" ->
            [questionId |-> question.id,
             response |-> IF rawValue.k = "file" THEN StrV(rawValue.name) ELSE Null,
             uploadedFileName |-> IF rawValue.k = "file" THEN StrV(rawValue.name) ELSE Null]
      [] OTHER ->
            [questionId |-> question.id, response |-> StrV(trimString(rawValue)),
             uploadedFileName |-> Undefined]

\* handleSubmit: visibleQuestions.map(...)
AssembleAnswers(questions, values) ==
    LET visible == visibleQuestions(questions, values)
    IN  [i \in 1..Len(visible) |->
            AnswerOf(visible[i], ValueOf(values.answers, visible[i].id))]

\* createSubmission that ignores input.status
SubmissionRecordAlwaysCompleted(table, input, id, time) ==
    [id |-> id, jobId |-> input.jobId, assessmentId |-> Get(table[input.jobId]).id,
     candidateId |-> input.candidateId, candidateName |-> input.candidateName,
     submittedAt |-> IF IsSome(input.submittedAt) THEN Get(input.submittedAt) ELSE time,
     score |-> Null, status |-> "completed", answers |-> input.answers]

\* createSubmission: the record added for an input, when the job has an
\* assessment; `id` is the key the table assigns (++id)
SubmissionRecord(table, input, id, time) ==
    [id |-> id, jobId |-> input.jobId, assessmentId |-> Get(table[input.jobId]).id,
     candidateId |-> input.candidateId, candidateName |-> input.candidateName,
     submittedAt |-> IF IsSome(input.submittedAt) THEN Get(input.submittedAt) ELSE time,
     score |-> Null,
     status |-> IF IsSome(input.status) THEN Get(input.status) ELSE "completed",
     answers |-> input.answers]

\* createSubmission: throws 'Assessment not found for job' when the job has none
createSubmissionThrows(table, input) == ~IsSome(table[input.jobId])

createSubmission(table, submissions, input, id, time) ==
    IF createSubmissionThrows(table, input) THEN submissions
    ELSE Append(submissions, SubmissionRecord(table, input, id, time))

---------------------------------------------------------------------------
(* Submission page: inputs                                                 *)

MaxAttempts == 2            \* submit attempts of a respondent
MaxEdits == 4               \* edits of a respondent

FormJob == "j1"
S_Al == <<"A", "l">>
S_blank == <<" ">>
S_mail == <<"a", "@", "b", ".", "c", "o">>
PdfFile == FileV(<<"c", "v">>, "application/pdf", 1024)

\* The assessments a builder may have saved for the job: section 1 holds a
\* required single-choice question (3) and a question (4) of any type, required
\* or not, shown when question 3 is answered "yes"; section 2 holds an optional
\* short-text question (5).
FormSections(type, required) ==
    <<[id |-> 1, assessmentId |-> FormJob, order |-> 0, title |-> Title("Basics"),
       description |-> Some(""), timeLimitMinutes |-> None,
       questions |-> <<
            [id |-> 3, sectionId |-> 1, order |-> 0, type |-> "single_choice",
             label |-> "Remote?", description |-> None, helperText |-> None,
             required |-> TRUE, validation |-> NoValidation, conditionalLogic |-> None,
             choices |-> Some(<<ChoiceYes, ChoiceNo>>)],
            [id |-> 4, sectionId |-> 1, order |-> 1, type |-> type,
             label |-> "Details", description |-> None, helperText |-> None,
             required |-> required,
             validation |->
                [NoValidation EXCEPT
                    !.maxLength = IF type \in {"short_text", "long_text"} THEN Some(2) ELSE None,
                    !.minValue = IF type = "numeric" THEN Some(0) ELSE None,
                    !.maxValue = IF type = "numeric" THEN Some(5) ELSE None,
                    !.allowedFileTypes =
                        IF type = "file_upload" THEN Some(<<"application/pdf">>) ELSE None,
                    !.maxFileSizeMb = IF type = "file_upload" THEN Some(1) ELSE None],
             conditionalLogic |-> Some([questionId |-> 3, equals |-> EqStr(S_yes)]),
             choices |->
                IF type \in {"single_choice", "multi_choice"}
                THEN Some(<<[id |-> 16, label |-> S_yes, value |-> S_yes],
                            [id |-> 17, label |-> S_no, value |-> S_no]>>)
                ELSE None] >>],
      [id |-> 2, assessmentId |-> FormJob, order |-> 1, title |-> NumberedTitle(2),
       description |-> Some(""), timeLimitMinutes |-> None,
       questions |-> <<
            [id |-> 5, sectionId |-> 2, order |-> 0, type |-> "short_text",
             label |-> "Notes", description |-> None, helperText |-> None,
             required |-> FALSE, validation |-> NoValidation, conditionalLogic |-> None,
             choices |-> None] >>] >>

FormAssessment(type, required) ==
    UpsertRecord(
        [id |-> 21, jobId |-> FormJob, title |-> "Untitled assessment", summary |-> "",
         role |-> "Generalist", difficulty |-> "medium", durationMinutes |-> 60,
         status |-> "published", tags |-> <<>>, createdAt |-> 0, updatedAt |-> 0,
         sections |-> FormSections(type, required)], 0)

\* what the respondent can type into the candidate fields
CandidateNames == {S_empty, S_Al}
CandidateEmails == {S_empty, S_x, S_mail}

\* what the control of a question lets the respondent enter
ControlValues(question) ==
    CASE question.type = "single_choice" ->
            \* RadioGroup: a choice's value
            {StrV(Get(question.choices)[i].value) : i \in 1..Len(Get(question.choices))}
      [] question.type = "multi_choice" ->
            \* CheckboxGroup: the values checked, in the order checked
            {ArrV(<<>>)}
                \cup {ArrV(<<Get(question.choices)[i].value>>) :
                        i \in 1..Len(Get(question.choices))}
      [] question.type = "numeric" ->
            \* next === '' ? '' : Number(next)
            {StrV(S_empty), NumV(1), NumV(7)}
      [] question.type = "file_upload" ->
            \* event.target.files?.[0] ?? null
            {Null, PdfFile}
      [] OTHER -> {StrV(S_empty), StrV(S_x), StrV(S_blank)}

---------------------------------------------------------------------------
(* Submission page: load, edit, hidden-value reset, submit                 *)

Fetch(kind, body) ==
    [kind |-> kind, stage |-> "sent", body |-> body, response |-> NoResponse]

Respond(fetch, ok, data, message) ==
    [fetch EXCEPT !.stage = "responded",
                  !.response = [ok |-> ok, data |-> data, message |-> message]]

PageQuestions == orderedQuestions(Get(pageAssessment))

\* the form is on screen: loaded, no load error
FormShown == IsSome(pageAssessment) /\ ~pageIsLoading /\ ~IsSome(pageError)

\* the hidden-value reset effect has work to do
NeedsReset(question, values) ==
    /\ ~isQuestionVisible(question, values.answers)
    /\ ~isEqualValue(ValueOf(values.answers, question.id), questionDefaultValue(question))

ResetPending ==
    /\ IsSome(pageAssessment)
    /\ \E questions \in {PageQuestions} :
            \E i \in 1..Len(questions) : NeedsReset(questions[i], formValues)

\* one run of the effect: every question is judged against the values the
\* render watched, and each hidden one off its default is set to its default
ResetHidden(questions, values) ==
    [values EXCEPT !.answers =
        [id \in DOMAIN values.answers |->
            IF \E i \in 1..Len(questions) :
                    questions[i].id = id /\ NeedsReset(questions[i], values)
            THEN questionDefaultValue(
                    questions[CHOOSE i \in 1..Len(questions) :
                                /\ questions[i].id = id
                                /\ NeedsReset(questions[i], values)
                                /\ \A j \in (i + 1)..Len(questions) :
                                        ~(questions[j].id = id /\ NeedsReset(questions[j], values))])
            ELSE values.answers[id]]]

\* loadAssessment, up to the fetch ("Try again" after a failed load)
LoadAssessment ==
    /\ IsSome(pageError)
    /\ request = None
    /\ pageIsLoading' = TRUE
    /\ pageError' = None
    /\ request' = Some(Fetch("load", None))
    /\ UNCHANGED <<pageAssessment, formValues, formErrors, isSubmitting, toast, attempts,
                   visVars, storeVars, envVars>>

\* withNetwork: shouldFail() answers 503 without running the handler
FetchNetworkFailure ==
    /\ IsSome(request)
    /\ Get(request).stage = "sent"
    /\ request' = Some(Respond(Get(request), FALSE, None, "Simulated network instability"))
    /\ UNCHANGED <<pageAssessment, pageIsLoading, pageError, formValues, formErrors,
                   isSubmitting, toast, attempts, visVars, storeVars, envVars>>

\* GET /api/assessments/:jobId: getByJobId(jobId) ?? ensureForJob(jobId)
GetHandler ==
    /\ IsSome(request)
    /\ Get(request).kind = "load"
    /\ Get(request).stage = "sent"
    /\ dbAssessments' = EnsureTable(dbAssessments, FormJob, nextId, now)
    /\ nextId' = nextId + IdsOfEnsure(dbAssessments, FormJob)
    /\ now' = IF IsSome(dbAssessments[FormJob]) THEN now ELSE now + 1
    /\ request' = Some(Respond(Get(request), TRUE,
                               Some(EnsureResult(dbAssessments, FormJob, nextId, now)), ""))
    /\ UNCHANGED <<pageAssessment, pageIsLoading, pageError, formValues, formErrors,
                   isSubmitting, toast, attempts, dbSubmissions, submissionKey, visVars, storeVars>>

\* loadAssessment after an ok response: setAssessment; the new defaultValues
\* make the effect run form.reset(defaultValues)
LoadOk ==
    /\ IsSome(request)
    /\ Get(request).kind = "load"
    /\ Get(request).stage = "responded"
    /\ Get(request).response.ok
    /\ pageAssessment' = Get(request).response.data
    /\ pageIsLoading' = FALSE
    /\ \E questions \in {orderedQuestions(Get(Get(request).response.data))} :
            formValues' = createDefaultValues(questions)
    /\ formErrors' = {}
    /\ request' = None
    /\ UNCHANGED <<pageError, isSubmitting, toast, attempts, visVars, storeVars, envVars>>

\* loadAssessment that swallows a response that is not ok: no error is set and
\* the spinner stays
LoadFailStaysLoading ==
    /\ IsSome(request)
    /\ Get(request).kind = "load"
    /\ Get(request).stage = "responded"
    /\ ~Get(request).response.ok
    /\ request' = None
    /\ UNCHANGED <<pageAssessment, pageIsLoading, pageError, formValues, formErrors,
                   isSubmitting, toast, attempts, visVars, storeVars, envVars>>

\* loadAssessment after a response that is not ok
LoadFail ==
    /\ IsSome(request)
    /\ Get(request).kind = "load"
    /\ Get(request).stage = "responded"
    /\ ~Get(request).response.ok
    /\ pageError' = Some("Unable to load assessment")
    /\ pageIsLoading' = FALSE
    /\ request' = None
    /\ UNCHANGED <<pageAssessment, formValues, formErrors, isSubmitting, toast, attempts,
                   visVars, storeVars, envVars>>

\* the respondent edits while the form is on screen and at rest: no submit in
\* progress, and the reset effect of the last render has run
CanEdit == FormShown /\ ~isSubmitting /\ ~ResetPending /\ attempts.edits < MaxEdits

EditCandidateName ==
    /\ CanEdit
    /\ \E text \in CandidateNames :
        /\ text # formValues.candidateName
        /\ formValues' = [formValues EXCEPT !.candidateName = text]
    /\ attempts' = [attempts EXCEPT !.edits = @ + 1]
    /\ UNCHANGED <<pageAssessment, pageIsLoading, pageError, formErrors, isSubmitting, toast,
                   request, visVars, storeVars, envVars>>

EditCandidateEmail ==
    /\ CanEdit
    /\ \E text \in CandidateEmails :
        /\ text # formValues.candidateEmail
        /\ formValues' = [formValues EXCEPT !.candidateEmail = text]
    /\ attempts' = [attempts EXCEPT !.edits = @ + 1]
    /\ UNCHANGED <<pageAssessment, pageIsLoading, pageError, formErrors, isSubmitting, toast,
                   request, visVars, storeVars, envVars>>

\* field.onChange of a question's control; only visible questions are rendered
EditAnswer ==
    /\ CanEdit
    /\ \E i \in 1..Len(PageQuestions) :
        LET question == PageQuestions[i]
        IN  /\ isQuestionVisible(question, formValues.answers)
            /\ \E value \in ControlValues(question) :
                /\ value # formValues.answers[question.id]
                /\ formValues' = [formValues EXCEPT !.answers[question.id] = value]
    /\ attempts' = [attempts EXCEPT !.edits = @ + 1]
    /\ UNCHANGED <<pageAssessment, pageIsLoading, pageError, formErrors, isSubmitting, toast,
                   request, visVars, storeVars, envVars>>

\* the effect on watchedValues that resets hidden questions
HiddenResetEffect ==
    /\ ResetPending
    /\ formValues' = ResetHidden(PageQuestions, formValues)
    /\ UNCHANGED <<pageAssessment, pageIsLoading, pageError, formErrors, isSubmitting, toast,
                   request, attempts, visVars, storeVars, envVars>>

\* the respondent can press Submit
CanSubmit == FormShown /\ ~isSubmitting /\ ~ResetPending /\ request = None

\* form.handleSubmit when the resolver reports errors: they are shown, and the
\* submit handler does not run
SubmitRejected ==
    /\ CanSubmit
    /\ LET issues == buildSubmissionSchema(PageQuestions, formValues)
       IN  /\ ~ResolverAccepts(issues)
           /\ formErrors' = issues
    /\ UNCHANGED <<pageAssessment, pageIsLoading, pageError, formValues, isSubmitting, toast,
                   request, attempts, visVars, storeVars, envVars>>

\* form.handleSubmit when the resolver accepts: the submit handler assembles
\* the answers, creates the submission in the repository (an error is logged
\* and ignored) and sends POST /api/assessments/:jobId/submit
SubmitAccepted ==
    /\ CanSubmit
    /\ attempts.started < MaxAttempts
    /\ \E questions \in {PageQuestions} :
       \E issues \in {buildSubmissionSchema(questions, formValues)},
          answers \in {AssembleAnswers(questions, formValues)} :
       LET candidateName == Trim(formValues.candidateName)
           candidateEmail == Trim(formValues.candidateEmail)
           candidateId == nextId
           input == [jobId |-> FormJob, candidateId |-> candidateId,
                     candidateName |-> candidateName, answers |-> answers,
                     status |-> None, submittedAt |-> None]
       IN  /\ ResolverAccepts(issues)
           /\ dbSubmissions' = createSubmission(dbAssessments, dbSubmissions, input, submissionKey + 1, now)
           /\ submissionKey' = IF createSubmissionThrows(dbAssessments, input)
                               THEN submissionKey ELSE submissionKey + 1
           /\ request' = Some(Fetch("submit",
                    Some([candidateId |-> candidateId, candidateName |-> candidateName,
                          answers |-> answers, status |-> "completed", submittedAt |-> now,
                          candidateEmail |-> IF candidateEmail = S_empty THEN None
                                             ELSE Some(candidateEmail)])))
    /\ nextId' = nextId + 1
    /\ now' = now + 1
    /\ formErrors' = {}
    /\ isSubmitting' = TRUE
    /\ attempts' = [attempts EXCEPT !.started = @ + 1]
    /\ UNCHANGED <<pageAssessment, pageIsLoading, pageError, formValues, toast, dbAssessments,
                   visVars, storeVars>>

\* POST /api/assessments/:jobId/submit with a payload: 201 with the record
\* created, 404 when createSubmission throws
PostHandler ==
    /\ IsSome(request)
    /\ Get(request).kind = "submit"
    /\ Get(request).stage = "sent"
    /\ LET payload == Get(Get(request).body)
           input == [jobId |-> FormJob, candidateId |-> payload.candidateId,
                     candidateName |-> payload.candidateName, answers |-> payload.answers,
                     status |-> Some(payload.status),
                     submittedAt |-> Some(payload.submittedAt)]
       IN  /\ dbSubmissions' = createSubmission(dbAssessments, dbSubmissions, input, submissionKey + 1, now)
           /\ submissionKey' = IF createSubmissionThrows(dbAssessments, input)
                               THEN submissionKey ELSE submissionKey + 1
           /\ request' =
                IF createSubmissionThrows(dbAssessments, input)
                THEN Some(Respond(Get(request), FALSE, None, "Assessment not found for job"))
                ELSE Some(Respond(Get(request), TRUE, None, ""))
    /\ UNCHANGED <<pageAssessment, pageIsLoading, pageError, formValues, formErrors,
                   isSubmitting, toast, attempts, dbAssessments, nextId, now,
                   visVars, storeVars>>

\* the submit handler after an ok response, without the form.reset
SubmitOkKeepsValues ==
    /\ IsSome(request)
    /\ Get(request).kind = "submit"
    /\ Get(request).stage = "responded"
    /\ Get(request).response.ok
    /\ toast' = "success"
    /\ formErrors' = {}
    /\ isSubmitting' = FALSE
    /\ request' = None
    /\ attempts' = [attempts EXCEPT !.submitted = @ + 1]
    /\ UNCHANGED <<pageAssessment, pageIsLoading, pageError, formValues,
                   visVars, storeVars, envVars>>

\* the submit handler after an ok response: the toast, then
\* form.reset(createDefaultValues(orderedQuestions))
SubmitOk ==
    /\ IsSome(request)
    /\ Get(request).kind = "submit"
    /\ Get(request).stage = "responded"
    /\ Get(request).response.ok
    /\ toast' = "success"
    /\ formValues' = createDefaultValues(PageQuestions)
    /\ formErrors' = {}
    /\ isSubmitting' = FALSE
    /\ request' = None
    /\ attempts' = [attempts EXCEPT !.submitted = @ + 1]
    /\ UNCHANGED <<pageAssessment, pageIsLoading, pageError, visVars, storeVars, envVars>>

\* the submit handler after a response that is not ok: the toast; the values stay
SubmitFail ==
    /\ IsSome(request)
    /\ Get(request).kind = "submit"
    /\ Get(request).stage = "responded"
    /\ ~Get(request).response.ok
    /\ toast' = "error"
    /\ isSubmitting' = FALSE
    /\ request' = None
    /\ attempts' = [attempts EXCEPT !.failed = @ + 1]
    /\ UNCHANGED <<pageAssessment, pageIsLoading, pageError, formValues, formErrors,
                   visVars, storeVars, envVars>>

\* The page as mounted for the job, its first loadAssessment sent, over a
\* repository in which a builder saved an assessment for the job.
SubmitInit ==
    /\ VisIdle
    /\ StoreInit
    /\ budget = 0
    /\ \E type \in QuestionTypes, required \in BOOLEAN :
            dbAssessments = [j \in Jobs |->
                IF j = FormJob THEN Some(FormAssessment(type, required)) ELSE None]
    /\ dbSubmissions = <<>>
    /\ submissionKey = 0
    /\ nextId = FirstFreshId
    /\ now = 1
    /\ pageAssessment = None
    /\ pageIsLoading = TRUE
    /\ pageError = None
    /\ formValues = createDefaultValues(<<>>)
    /\ formErrors = {}
    /\ isSubmitting = FALSE
    /\ toast = "none"
    /\ request = Some(Fetch("load", None))
    /\ attempts = NoAttempts

SubmitNext ==
    \/ LoadAssessment
    \/ FetchNetworkFailure
    \/ GetHandler
    \/ LoadOk
    \/ LoadFail
    \/ EditCandidateName
    \/ EditCandidateEmail
    \/ EditAnswer
    \/ HiddenResetEffect
    \/ SubmitRejected
    \/ SubmitAccepted
    \/ PostHandler
    \/ SubmitOk
    \/ SubmitFail

SpecSubmit == SubmitInit /\ [][SubmitNext]_vars

---------------------------------------------------------------------------
(* Properties of the submission page                                       *)

\* C2: for every form state in which a required question is hidden by its
\* conditional logic, the compiled validator reports no issue whose path is
\* that question.
C2_HiddenRequiredNeverBlocks ==
    IsSome(pageAssessment) =>
        \A i \in 1..Len(PageQuestions) :
            LET question == PageQuestions[i]
            IN  (question.required /\ ~RefVisible(question, formValues.answers)) =>
                    \A issue \in buildSubmissionSchema(PageQuestions, formValues) :
                        ~(issue.field = "question" /\ issue.id = question.id)

\* A submit went through while a required question was hidden and blank.
C2_Witness ==
    /\ isSubmitting
    /\ \E i \in 1..Len(PageQuestions) :
        LET question == PageQuestions[i]
        IN  /\ question.required
            /\ ~RefVisible(question, formValues.answers)
            /\ formValues.answers[question.id] = questionDefaultValue(question)

\* the (section order, question order, id) keys of a set, ascending
RECURSIVE RefAscending(_)
RefAscending(keys) ==
    IF keys = {} THEN <<>>
    ELSE LET least == CHOOSE k \in keys :
                        \A other \in keys :
                            \/ k[1] < other[1]
                            \/ k[1] = other[1] /\ k[2] <= other[2]
         IN  <<least[3]>> \o RefAscending(keys \ {least})

\* the identifiers of the questions visible against `values`, in section order
\* then question order
RefAnswerIds(a, values) ==
    RefAscending(
        {<<a.sections[i].order, a.sections[i].questions[k].order, a.sections[i].questions[k].id>> :
            <<i, k>> \in {<<i, k>> \in (1..Len(a.sections)) \X (1..3) :
                            /\ k <= Len(a.sections[i].questions)
                            /\ RefVisible(a.sections[i].questions[k], values)}})

\* C3: the answers a submit assembles are exactly one answer per question
\* visible against the submitted values, in section order then question
\* order, with no entry for a hidden question; the values do not change while
\* the submit is in flight.
C3_AnswersAreTheVisibleQuestions ==
    (IsSome(request) /\ Get(request).kind = "submit") =>
        LET answers == Get(Get(request).body).answers
        IN  [i \in 1..Len(answers) |-> answers[i].questionId]
                = RefAnswerIds(Get(pageAssessment), formValues.answers)

\* A submit is in flight whose answers skip the hidden question 4, between
\* question 3 of section 1 and question 5 of section 2.
C3_Witness ==
    /\ IsSome(request)
    /\ Get(request).kind = "submit"
    /\ ~RefVisible(PageQuestions[2], formValues.answers)
    /\ LET answers == Get(Get(request).body).answers
       IN  [i \in 1..Len(answers) |-> answers[i].questionId] = <<3, 5>>

\* C7: the form leaves ready for submitting only if the validator accepts the
\* form state: from a state in which the form is at rest and the validator
\* reports an issue, no step starts a submit, creates a submission record or
\* sends a request.
C7_SubmitOnlyWhenValid ==
    [][(/\ FormShown
        /\ ~isSubmitting
        /\ buildSubmissionSchema(PageQuestions, formValues) # {})
       => /\ ~isSubmitting'
          /\ dbSubmissions' = dbSubmissions
          /\ request' = request]_vars

\* The respondent pressed Submit on a form with an issue: the issues are shown,
\* nothing was recorded and nothing was sent.
C7_Witness ==
    /\ formErrors # {}
    /\ buildSubmissionSchema(PageQuestions, formValues) = formErrors
    /\ ~isSubmitting
    /\ request = None
    /\ dbSubmissions = <<>>
    /\ attempts.started = 0

\* C8: each submit attempt that ends submitted adds exactly one submission
\* record and each that ends failed adds none: when no attempt is in flight,
\* the repository holds as many records as attempts ended submitted.
C8_OneRecordPerSuccessfulSubmit ==
    (~isSubmitting /\ request = None) => Len(dbSubmissions) = attempts.submitted

\* an untouched form: both candidate fields empty, every text, choice and
\* numeric input empty, no box checked, no file chosen
RefBlankForm ==
    [candidateName |-> S_empty, candidateEmail |-> S_empty,
     answers |-> [id \in {PageQuestions[i].id : i \in 1..Len(PageQuestions)} |->
        LET type == PageQuestions[CHOOSE i \in 1..Len(PageQuestions) :
                                    PageQuestions[i].id = id].type
        IN  IF type = "multi_choice" THEN ArrV(<<>>)
            ELSE IF type = "file_upload" THEN Null
            ELSE StrV(S_empty)]]

\* C12: when a handoff ends, the form is at rest again and can be submitted;
\* after a successful handoff every form value (candidate name, email, every
\* answer) is the blank default, after a failed handoff every form value is
\* what the respondent entered and the validator still accepts it.
C12_ResetOnSuccessKeepOnFailure ==
    [][(isSubmitting /\ ~isSubmitting')
        => /\ IsSome(pageAssessment) /\ pageAssessment' = pageAssessment
           /\ ~pageIsLoading' /\ ~IsSome(pageError')
           /\ request' = None
           /\ \A i \in 1..Len(PageQuestions) : ~NeedsReset(PageQuestions[i], formValues')
           /\ IF Get(request).response.ok
                THEN formValues' = RefBlankForm
                ELSE /\ formValues' = formValues
                     /\ ResolverAccepts(buildSubmissionSchema(PageQuestions, formValues))]_vars

\* a handoff failed and left the entered values in place, the respondent
\* submitted them again, and that handoff succeeded and blanked the form
C12_Witness ==
    /\ attempts.failed = 1
    /\ attempts.submitted = 1
    /\ toast = "success"
    /\ ~isSubmitting
    /\ formValues = RefBlankForm
    /\ Len(dbSubmissions) > 0
    /\ dbSubmissions[Len(dbSubmissions)].candidateName = S_Al

\* the empty default of a type: '' for short_text, long_text and
\* single_choice, [] for multi_choice, null for numeric and file_upload
RefEmptyDefault(type) ==
    IF type = "multi_choice" THEN ArrV(<<>>)
    ELSE IF type \in {"numeric", "file_upload"} THEN Null
    ELSE StrV(S_empty)

\* C13: a question that is hidden after a visibility change has its value
\* reset to the empty default of its type: whenever a step changes the value
\* of a question that is hidden after the step, the new value is '' for
\* short_text, long_text and single_choice, [] for multi_choice and null for
\* numeric and file_upload.
C13_HiddenValueResetToEmptyDefault ==
    [][(IsSome(pageAssessment) /\ pageAssessment' = pageAssessment)
        => \A i \in 1..Len(PageQuestions) :
            LET question == PageQuestions[i]
            IN  (/\ ~isQuestionVisible(question, formValues'.answers)
                 /\ formValues'.answers[question.id] # formValues.answers[question.id])
                => formValues'.answers[question.id] = RefEmptyDefault(question.type)]_vars

---------------------------------------------------------------------------
(* The validator on its own: buildSubmissionSchema(questions) for a form   *)
(* of one visible question, applied to the values a respondent may hold.   *)
(* The question, the candidate fields and the answer are drawn from the    *)
(* sets below; an answer or a candidate field may change, and every change *)
(* is followed by a validation.                                            *)

S_seven == <<"7">>
PngFile == FileV(<<"c", "v">>, "image/png", 1024)
PdfOfOneMb == FileV(<<"c", "v">>, "application/pdf", BytesPerMb)
PdfOverOneMb == FileV(<<"c", "v">>, "application/pdf", BytesPerMb + 1)

\* a visible question (no conditional logic) of type numeric or file_upload
ValQuestion(type, required, validation) ==
    [id |-> 3, sectionId |-> 1, order |-> 0, type |-> type, label |-> "Details",
     description |-> None, helperText |-> None, required |-> required,
     validation |-> validation, conditionalLogic |-> None, choices |-> None]

\* QuestionValidation of a numeric question: minValue?, maxValue?
NumericValidations ==
    {[NoValidation EXCEPT !.minValue = min, !.maxValue = max] :
        min \in {None, Some(0)}, max \in {None, Some(500)}}

\* QuestionValidation of a file_upload question: allowedFileTypes?: string[],
\* maxFileSizeMb?
FileValidations ==
    {[NoValidation EXCEPT !.allowedFileTypes = allowed, !.maxFileSizeMb = size] :
        allowed \in {None, Some(<<>>), Some(<<"application/pdf">>)},
        size \in {None, Some(1)}}

ValQuestions ==
    {ValQuestion("numeric", required, validation) :
        required \in BOOLEAN, validation \in NumericValidations}
    \cup {ValQuestion("file_upload", required, validation) :
            required \in BOOLEAN, validation \in FileValidations}

\* the values the form may hold for the question: the default, what the
\* control passes to field.onChange, and the other members of the schema's
\* union (a string for a numeric question, undefined)
ValAnswers(question) ==
    IF question.type = "numeric"
    THEN {Undefined, StrV(S_empty), StrV(S_seven), StrV(S_x),
          NumV(0 - 1), NumV(0), NumV(500), NumV(501)}
    ELSE {Undefined, Null, PdfFile, PngFile, PdfOfOneMb, PdfOverOneMb}

ValNames == {S_empty, S_blank, S_Al}
ValEmails == {S_empty, S_x, S_mail}

ValInit ==
    /\ StoreInit
    /\ FormIdle
    /\ budget = 0
    /\ dbAssessments = [j \in Jobs |-> None]
    /\ dbSubmissions = <<>>
    /\ submissionKey = 0
    /\ nextId = FirstFreshId
    /\ now = 0
    /\ pq \in ValQuestions
    /\ \E name \in ValNames, email \in ValEmails, answer \in ValAnswers(pq) :
            pvalues = [candidateName |-> name, candidateEmail |-> email,
                       answers |-> [id \in {pq.id} |-> answer]]
    /\ pout = None

\* zodResolver(formSchema) on the current values
ValValidate ==
    /\ pout = None
    /\ pout' = Some(buildSubmissionSchema(<<pq>>, pvalues))
    /\ UNCHANGED <<pq, pvalues, storeVars, envVars, formVars>>

ValChangeAnswer ==
    /\ IsSome(pout)
    /\ \E answer \in ValAnswers(pq) :
        /\ answer # pvalues.answers[pq.id]
        /\ pvalues' = [pvalues EXCEPT !.answers[pq.id] = answer]
    /\ pout' = None
    /\ request' = None
    /\ UNCHANGED <<pq, storeVars, envVars>>
    /\ UNCHANGED <<pageAssessment, pageIsLoading, pageError, formValues,
                   formErrors, isSubmitting, toast, attempts>>

ValChangeCandidate ==
    /\ IsSome(pout)
    /\ \E name \in ValNames, email \in ValEmails :
        /\ <<name, email>> # <<pvalues.candidateName, pvalues.candidateEmail>>
        /\ pvalues' = [pvalues EXCEPT !.candidateName = name, !.candidateEmail = email]
    /\ pout' = None
    /\ request' = None
    /\ UNCHANGED <<pq, storeVars, envVars>>
    /\ UNCHANGED <<pageAssessment, pageIsLoading, pageError, formValues,
                   formErrors, isSubmitting, toast, attempts>>

\* form.handleSubmit once the resolver has accepted: the submit handler
\* assembles the answers of the request it is about to send
ValAssemble ==
    /\ IsSome(pout)
    /\ ResolverAccepts(Get(pout))
    /\ request = None
    /\ request' = Some(Fetch("submit",
                            Some([candidateName |-> Trim(pvalues.candidateName),
                                  answers |-> AssembleAnswers(<<pq>>, pvalues)])))
    /\ UNCHANGED <<visVars, storeVars, envVars>>
    /\ UNCHANGED <<pageAssessment, pageIsLoading, pageError, formValues,
                   formErrors, isSubmitting, toast, attempts>>

ValNext == ValValidate \/ ValChangeAnswer \/ ValChangeCandidate \/ ValAssemble

SpecValidate == ValInit /\ [][ValNext]_vars

\* the validator reported an issue on the question, on a candidate field
QuestionFails == \E issue \in Get(pout) : issue.field = "question" /\ issue.id = pq.id
FieldFails(field) == \E issue \in Get(pout) : issue.field = field

\* the number a non-blank numeric value stands for, if any
RefNumber(value) ==
    IF value.k = "number" THEN Some(value.n)
    ELSE IF value = StrV(S_seven) THEN Some(7)
    ELSE None

RefBlankNumeric(value) == value = StrV(S_empty) \/ value = Undefined

C15_FileAcceptedIffTypeAndSizeFit ==
    (IsSome(pout) /\ pq.type = "file_upload")
        => LET value == pvalues.answers[pq.id]
               allowed == pq.validation.allowedFileTypes
               size == pq.validation.maxFileSizeMb
           IN  QuestionFails <=>
                    IF value.k # "file" THEN pq.required
                    ELSE \/ /\ IsSome(allowed)
                            /\ Get(allowed) # <<>>
                            /\ \A i \in 1..Len(Get(allowed)) : Get(allowed)[i] # value.type
                         \/ /\ IsSome(size)
                            /\ value.size > Get(size) * BytesPerMb

\* C16: candidateName passes validation exactly when it is non-empty after
\* trimming (a whitespace-only name gets an issue on candidateName);
\* candidateEmail passes when it is empty or has the shape of an email address
\* and fails otherwise.
C16_CandidateFieldsValidated ==
    IsSome(pout)
        => /\ FieldFails("candidateName") <=> (Trim(pvalues.candidateName) = S_empty)
           /\ FieldFails("candidateEmail") <=>
                    (pvalues.candidateEmail # S_empty /\ pvalues.candidateEmail # S_mail)

---------------------------------------------------------------------------
(* Referential and structural integrity of the edited assessment           *)

\* C17: after any sequence of builder operations every question's
\* conditionalLogic names a question that exists in the same assessment and
\* is not the question itself.
C17_ConditionalTargetsExist ==
    IsSome(assessment) =>
        \A q \in Range(AllQuestions(Get(assessment))) :
            IsSome(q.conditionalLogic)
                => /\ Get(q.conditionalLogic).questionId \in QuestionIds(Get(assessment))
                   /\ Get(q.conditionalLogic).questionId # q.id

\* C18: after any sequence of builder operations every single_choice and
\* multi_choice question has at least two choices and every question of
\* another type has no choice list.
C18_ChoicesMatchType ==
    IsSome(assessment) =>
        \A q \in Range(AllQuestions(Get(assessment))) :
            IF q.type \in {"single_choice", "multi_choice"}
            THEN IsSome(q.choices) /\ Len(Get(q.choices)) >= 2
            ELSE ~IsSome(q.choices)

---------------------------------------------------------------------------
(* Repository: deleteAssessmentByJobId, listSubmissionsByJobId             *)

\* database.assessments.delete(jobId)
deleteAssessment(table, jobId) == [table EXCEPT ![jobId] = None]

\* deleteAssessmentByJobId without the delete on the submissions table
deleteSubmissionsOfNoJob(submissions, jobId) == submissions

\* database.submissions.where('jobId').equals(jobId).delete()
deleteSubmissionsOfJob(submissions, jobId) ==
    LET Other(record) == record.jobId # jobId
    IN  SelectSeq(submissions, Other)

\* listSubmissionsByJobId: the job's records sorted by submittedAt (records of
\* equal submittedAt by key), reversed
listSubmissionsByJobId(submissions, jobId) ==
    LET OfJob(record) == record.jobId = jobId
        RECURSIVE Descending(_)
        Descending(records) ==
            IF records = {} THEN <<>>
            ELSE LET last == CHOOSE r \in records :
                        \A o \in records :
                            \/ o.submittedAt < r.submittedAt
                            \/ o.submittedAt = r.submittedAt /\ o.id <= r.id
                 IN  <<last>> \o Descending(records \ {last})
    IN  Descending(Range(SelectSeq(submissions, OfJob)))

---------------------------------------------------------------------------
(* Assessment repository on its own: getByJobId, ensureForJob, upsert and  *)
(* the PUT handler, called in any order on a table that holds a saved      *)
(* assessment for job j1 or for no job. `pq` records the last call, `pout` *)
(* what it returned.                                                       *)

MaxRepoCalls == 3           \* repository calls in a run

\* a record as a caller may hand it to upsert: sections listed in an order
\* their `order` fields do not agree with
Unnormalized(jobId) ==
    [SavedAssessment(jobId) EXCEPT !.sections = <<@[2], @[1]>>, !.title = "Reordered"]

UpsertInputs == {Unnormalized(jobId) : jobId \in Jobs} \cup {SavedAssessment("j2")}

\* Partial<AssessmentRecord> bodies of a PUT: a whole record (of the job of
\* the route or of another job), and a title alone
PutPayloads ==
    {SavedAssessment(jobId) : jobId \in Jobs}
        \cup {Unnormalized("j1")}
        \cup {[title |-> "Renamed"]}

RepoCall(op, jobId, before, again) ==
    [op |-> op, jobId |-> jobId, before |-> before, submissionsBefore |-> dbSubmissions,
     again |-> again]

\* a seeded submission (seedSubmissions): graded, one per seeded assessment
SeededSubmission(jobId, id) ==
    [id |-> id, jobId |-> jobId, assessmentId |-> SavedAssessment(jobId).id,
     candidateId |-> 30 + id, candidateName |-> <<"J">>, submittedAt |-> 0,
     score |-> NumV(87), status |-> "graded",
     answers |-> <<[questionId |-> 3, response |-> StrV(S_yes)]>>]

\* CreateSubmissionInput: for either job, status given or not
SubmissionInputs ==
    {[jobId |-> jobId, candidateId |-> 40, candidateName |-> S_Al,
      answers |-> <<[questionId |-> 3, response |-> StrV(S_no)]>>,
      status |-> status, submittedAt |-> None] :
        jobId \in Jobs, status \in {None, Some("in_progress")}}

RepoInit ==
    /\ StoreInit
    /\ FormIdle
    /\ budget = MaxRepoCalls
    /\ \/ /\ dbAssessments \in
                {[j \in Jobs |-> None],
                 [j \in Jobs |-> IF j = "j1" THEN Some(SavedAssessment(j)) ELSE None]}
          /\ dbSubmissions = <<>>
          /\ submissionKey = 0
       \/ /\ dbAssessments = [j \in Jobs |-> Some(SavedAssessment(j))]
          /\ dbSubmissions = <<SeededSubmission("j1", 1), SeededSubmission("j2", 2)>>
          /\ submissionKey = 2
    /\ nextId = FirstFreshId
    /\ now = 1
    /\ pq = RepoCall("none", "j1", dbAssessments, FALSE)
    /\ pvalues = <<>>
    /\ pout = None

\* getAssessmentByJobId(jobId)
RepoGet ==
    /\ budget > 0
    /\ \E jobId \in Jobs :
        /\ pq' = RepoCall("get", jobId, dbAssessments, FALSE)
        /\ pout' = getAssessmentByJobId(dbAssessments, jobId)
    /\ budget' = budget - 1
    /\ UNCHANGED <<pvalues, selectedJobId, assessment, isLoading, isPersisting, error, calls,
                   started, applied, settled, lastOp, envVars, formVars>>

\* ensureAssessmentForJob(jobId)
RepoEnsure ==
    /\ budget > 0
    /\ \E jobId \in Jobs :
        /\ pq' = RepoCall("ensure", jobId, dbAssessments, FALSE)
        /\ pout' = Some(EnsureResult(dbAssessments, jobId, nextId, now))
        /\ dbAssessments' = EnsureTable(dbAssessments, jobId, nextId, now)
        /\ nextId' = nextId + IdsOfEnsure(dbAssessments, jobId)
        /\ now' = IF IsSome(dbAssessments[jobId]) THEN now ELSE now + 1
    /\ budget' = budget - 1
    /\ UNCHANGED <<pvalues, selectedJobId, assessment, isLoading, isPersisting, error, calls,
                   started, applied, settled, lastOp, dbSubmissions, submissionKey, formVars>>

\* upsertAssessment(record), on a record of the caller's
RepoUpsert ==
    /\ budget > 0
    /\ \E record \in UpsertInputs :
        /\ pq' = RepoCall("upsert", record.jobId, dbAssessments, FALSE)
        /\ pout' = Some(UpsertRecord(record, now))
        /\ dbAssessments' = upsertAssessment(dbAssessments, record, now)
    /\ now' = now + 1
    /\ budget' = budget - 1
    /\ UNCHANGED <<pvalues, selectedJobId, assessment, isLoading, isPersisting, error, calls,
                   started, applied, settled, lastOp, dbSubmissions, submissionKey, nextId, formVars>>

\* upsertAssessment(record), on the record the previous upsert returned;
\* `pvalues` keeps that record
RepoUpsertAgain ==
    /\ budget > 0
    /\ pq.op = "upsert"
    /\ LET record == Get(pout)
       IN  /\ pq' = RepoCall("upsert", record.jobId, dbAssessments, TRUE)
           /\ pvalues' = record
           /\ pout' = Some(UpsertRecord(record, now))
           /\ dbAssessments' = upsertAssessment(dbAssessments, record, now)
    /\ now' = now + 1
    /\ budget' = budget - 1
    /\ UNCHANGED <<selectedJobId, assessment, isLoading, isPersisting, error, calls,
                   started, applied, settled, lastOp, dbSubmissions, submissionKey, nextId, formVars>>

\* PUT /api/assessments/:jobId with a payload, the handler having run:
\* ensureForJob(jobId), then upsert of the baseline overlaid with the payload
RepoPut ==
    /\ budget > 0
    /\ \E jobId \in Jobs, payload \in PutPayloads :
        LET created == ~IsSome(dbAssessments[jobId])
            time == IF created THEN now + 1 ELSE now
            baseline == EnsureResult(dbAssessments, jobId, nextId, now)
            ensured == EnsureTable(dbAssessments, jobId, nextId, now)
            updated == PutRecord(baseline, payload, jobId)
        IN  /\ pq' = RepoCall("put", jobId, dbAssessments, FALSE)
            /\ pout' = Some(UpsertRecord(updated, time))
            /\ dbAssessments' = upsertAssessment(ensured, updated, time)
            /\ nextId' = nextId + IdsOfEnsure(dbAssessments, jobId)
            /\ now' = time + 1
    /\ budget' = budget - 1
    /\ UNCHANGED <<pvalues, selectedJobId, assessment, isLoading, isPersisting, error, calls,
                   started, applied, settled, lastOp, dbSubmissions, submissionKey, formVars>>

\* PUT /api/assessments/:jobId answered 503 by withNetwork: the handler does
\* not run
RepoPutUnavailable ==
    /\ budget > 0
    /\ \E jobId \in Jobs :
        /\ pq' = RepoCall("put503", jobId, dbAssessments, FALSE)
        /\ pout' = None
    /\ budget' = budget - 1
    /\ UNCHANGED <<pvalues, selectedJobId, assessment, isLoading, isPersisting, error, calls,
                   started, applied, settled, lastOp, envVars, formVars>>

\* createSubmission(input); `pvalues` keeps the input
RepoCreateSubmission ==
    /\ budget > 0
    /\ \E input \in SubmissionInputs :
        /\ pq' = RepoCall("create", input.jobId, dbAssessments, FALSE)
        /\ pvalues' = input
        /\ pout' = IF createSubmissionThrows(dbAssessments, input)
                    THEN Some([thrown |-> "Assessment not found for job"])
                    ELSE Some(SubmissionRecord(dbAssessments, input, submissionKey + 1, now))
        /\ dbSubmissions' =
                createSubmission(dbAssessments, dbSubmissions, input, submissionKey + 1, now)
        /\ submissionKey' = IF createSubmissionThrows(dbAssessments, input)
                            THEN submissionKey ELSE submissionKey + 1
    /\ now' = now + 1
    /\ budget' = budget - 1
    /\ UNCHANGED <<selectedJobId, assessment, isLoading, isPersisting, error, calls,
                   started, applied, settled, lastOp, dbAssessments, nextId, formVars>>

\* POST /api/assessments/:jobId/submit with a payload, the handler having
\* run: 201 with the record, 404 with the message of the error thrown
RepoPost ==
    /\ budget > 0
    /\ \E input \in SubmissionInputs :
        /\ pq' = RepoCall("post", input.jobId, dbAssessments, FALSE)
        /\ pvalues' = input
        /\ pout' = IF createSubmissionThrows(dbAssessments, input)
                    THEN Some([status |-> 404, message |-> "Assessment not found for job"])
                    ELSE Some([status |-> 201,
                               data |-> SubmissionRecord(dbAssessments, input,
                                                         submissionKey + 1, now)])
        /\ dbSubmissions' =
                createSubmission(dbAssessments, dbSubmissions, input, submissionKey + 1, now)
        /\ submissionKey' = IF createSubmissionThrows(dbAssessments, input)
                            THEN submissionKey ELSE submissionKey + 1
    /\ now' = now + 1
    /\ budget' = budget - 1
    /\ UNCHANGED <<selectedJobId, assessment, isLoading, isPersisting, error, calls,
                   started, applied, settled, lastOp, dbAssessments, nextId, formVars>>

\* deleteAssessmentByJobId(jobId): both deletes in one transaction
RepoRemoveByJob ==
    /\ budget > 0
    /\ \E jobId \in Jobs :
        /\ pq' = RepoCall("remove", jobId, dbAssessments, FALSE)
        /\ pout' = None
        /\ dbAssessments' = deleteAssessment(dbAssessments, jobId)
        /\ dbSubmissions' = deleteSubmissionsOfJob(dbSubmissions, jobId)
    /\ budget' = budget - 1
    /\ UNCHANGED <<pvalues, selectedJobId, assessment, isLoading, isPersisting, error, calls,
                   started, applied, settled, lastOp, submissionKey, nextId, now, formVars>>

\* listSubmissionsByJobId(jobId)
RepoListSubmissions ==
    /\ budget > 0
    /\ \E jobId \in Jobs :
        /\ pq' = RepoCall("list", jobId, dbAssessments, FALSE)
        /\ pout' = Some(listSubmissionsByJobId(dbSubmissions, jobId))
    /\ budget' = budget - 1
    /\ UNCHANGED <<pvalues, selectedJobId, assessment, isLoading, isPersisting, error, calls,
                   started, applied, settled, lastOp, envVars, formVars>>

RepoNext ==
    \/ RepoGet
    \/ RepoEnsure
    \/ RepoUpsert
    \/ RepoUpsertAgain
    \/ RepoPut
    \/ RepoPutUnavailable
    \/ RepoCreateSubmission
    \/ RepoPost
    \/ RepoRemoveByJob
    \/ RepoListSubmissions

SpecRepo == RepoInit /\ [][RepoNext]_vars

\* every `order` of the record is the position of its bearer
RefOrdersArePositions(record) ==
    \A i \in 1..Len(record.sections) :
        /\ record.sections[i].order = i - 1
        /\ \A k \in 1..Len(record.sections[i].questions) :
                record.sections[i].questions[k].order = k - 1

\* C19: upsert stores and returns a record whose section and question orders
\* equal their list positions, and an upsert of the record an upsert returned
\* returns (and stores) a record that differs from it in `updatedAt` only.
C19_UpsertNormalizesAndIsIdempotent ==
    pq.op = "upsert"
        => /\ dbAssessments[pq.jobId] = pout
           /\ RefOrdersArePositions(Get(pout))
           /\ pq.again => [Get(pout) EXCEPT !.updatedAt = 0] = [pvalues EXCEPT !.updatedAt = 0]

\* a record with its sections out of order was upserted, and the record
\* returned was upserted again at a later time
C19_Witness ==
    /\ pq.op = "upsert"
    /\ pq.again
    /\ pvalues.title = "Reordered"
    /\ pvalues.sections[1].id = 2
    /\ Get(pout).updatedAt # pvalues.updatedAt

\* C20: the repository holds at most one Assessment per job, each under its
\* own job; ensure(jobId) returns the stored record and changes nothing when
\* the job has one, and otherwise stores and returns a default of two
\* sections, so that get(jobId) then returns a record with the identifier
\* ensure returned; a PUT for job J stores its record under J, whatever jobId
\* the payload names, and touches the record of no other job.
C20_OneAssessmentPerJob ==
    /\ \A j \in Jobs : IsSome(dbAssessments[j]) => Get(dbAssessments[j]).jobId = j
    /\ pq.op = "get" => pout = dbAssessments[pq.jobId]
    /\ pq.op = "ensure"
        => /\ \A j \in Jobs \ {pq.jobId} : dbAssessments[j] = pq.before[j]
           /\ IsSome(dbAssessments[pq.jobId])
           /\ Get(getAssessmentByJobId(dbAssessments, pq.jobId)).id = Get(pout).id
           /\ IF IsSome(pq.before[pq.jobId])
                THEN pout = pq.before[pq.jobId] /\ dbAssessments = pq.before
                ELSE Len(Get(pout).sections) = 2 /\ Get(pout).jobId = pq.jobId
    /\ pq.op = "put"
        => /\ dbAssessments[pq.jobId] = pout
           /\ Get(pout).jobId = pq.jobId
           /\ \A j \in Jobs \ {pq.jobId} : dbAssessments[j] = pq.before[j]

\* a PUT for job j1 carried the record of job j2, while job j2 had no record
C20_Witness ==
    /\ pq.op = "put"
    /\ pq.jobId = "j1"
    /\ Get(pout).id = 22
    /\ Get(pout).jobId = "j1"
    /\ ~IsSome(dbAssessments["j2"])

\* the records of a job, in table order
RefOfJob(submissions, jobId) ==
    LET OfJob(record) == record.jobId = jobId
    IN  SelectSeq(submissions, OfJob)

\* exactly one record was added for the input kept in `pvalues`
RefOneRecordAdded ==
    /\ Len(dbSubmissions) = Len(pq.submissionsBefore) + 1
    /\ SubSeq(dbSubmissions, 1, Len(pq.submissionsBefore)) = pq.submissionsBefore
    /\ LET record == dbSubmissions[Len(dbSubmissions)]
       IN  /\ record.jobId = pq.jobId
           /\ record.assessmentId = Get(pq.before[pq.jobId]).id
           /\ record.status = (IF IsSome(pvalues.status) THEN Get(pvalues.status)
                                ELSE "completed")
           /\ record.answers = pvalues.answers

\* C21: createSubmission for a job without an Assessment rejects with the
\* not-found error and adds no SubmissionRecord; for a job with one it adds
\* exactly one record carrying the assessment's identifier, the status given
\* (`completed` when none is given) and the supplied answers, and returns it;
\* the POST handler answers a rejection with a non-2xx { message } response.
C21_CreateSubmissionNeedsAssessment ==
    /\ pq.op = "create"
        => IF ~IsSome(pq.before[pq.jobId])
           THEN /\ pout = Some([thrown |-> "Assessment not found for job"])
                /\ dbSubmissions = pq.submissionsBefore
           ELSE /\ RefOneRecordAdded
                /\ pout = Some(dbSubmissions[Len(dbSubmissions)])
    /\ pq.op = "post"
        => IF ~IsSome(pq.before[pq.jobId])
           THEN /\ Get(pout).status \notin 200..299
                /\ Get(pout).message = "Assessment not found for job"
                /\ dbSubmissions = pq.submissionsBefore
           ELSE /\ RefOneRecordAdded
                /\ Get(pout).status \in 200..299
                /\ Get(pout).data = dbSubmissions[Len(dbSubmissions)]

\* a submission was recorded for a job, the job was removed, and a POST for
\* it was then answered 404
C21_Witness ==
    /\ pq.op = "post"
    /\ ~IsSome(pq.before[pq.jobId])
    /\ Get(pout).status = 404
    /\ \E i \in 1..Len(dbSubmissions) : dbSubmissions[i].status = "in_progress"

\* C22: removeByJob(jobId) deletes the job's Assessment and every
\* SubmissionRecord of the job and leaves the Assessment and the
\* SubmissionRecords of every other job as they were; get(jobId) is then null
\* and listSubmissionsByJob(jobId) empty.
C22_RemoveByJobCascades ==
    pq.op = "remove"
        => /\ getAssessmentByJobId(dbAssessments, pq.jobId) = None
           /\ listSubmissionsByJobId(dbSubmissions, pq.jobId) = <<>>
           /\ \A i \in 1..Len(dbSubmissions) : dbSubmissions[i].jobId # pq.jobId
           /\ \A j \in Jobs \ {pq.jobId} :
                /\ dbAssessments[j] = pq.before[j]
                /\ RefOfJob(dbSubmissions, j) = RefOfJob(pq.submissionsBefore, j)

\* job j1, which had an assessment and two submissions, was removed while job
\* j2 keeps its assessment and its submission
C22_Witness ==
    /\ pq.op = "remove"
    /\ pq.jobId = "j1"
    /\ IsSome(pq.before["j1"])
    /\ Len(RefOfJob(pq.submissionsBefore, "j1")) = 2
    /\ IsSome(dbAssessments["j2"])
    /\ Len(RefOfJob(dbSubmissions, "j2")) = 1


---------------------------------------------------------------------------
(* Transient transport failures: a builder that has loaded the job and a   *)
(* submission page for the same job, over a transport whose instability    *)
(* ends                                                                    *)

MaxFailures == 2            \* 503 answers withNetwork gives in a run

\* withNetwork answering a fetch of the page with 503; shouldFail() is true
\* at most MaxFailures times in a run
TransientFetchFailure ==
    /\ budget > 0
    /\ budget' = budget - 1
    /\ IsSome(request)
    /\ Get(request).stage = "sent"
    /\ request' = Some(Respond(Get(request), FALSE, None, "Simulated network instability"))
    /\ UNCHANGED <<pageAssessment, pageIsLoading, pageError, formValues, formErrors,
                   isSubmitting, toast, attempts, visVars, envVars,
                   selectedJobId, assessment, isLoading, isPersisting, error,
                   calls, started, applied, settled, lastOp>>

\* withNetwork answering the PUT of a persist with 503
TransientPutFailure ==
    /\ budget > 0
    /\ budget' = budget - 1
    /\ \E call \in calls :
        /\ call.kind = "persist"
        /\ call.stage = "sent"
        /\ calls' = (calls \ {call}) \cup
                {[call EXCEPT !.stage = "responded",
                              !.response = [ok |-> FALSE, data |-> None,
                                            message |-> "Simulated network instability"]]}
    /\ UNCHANGED <<selectedJobId, assessment, isLoading, isPersisting, error, started,
                   applied, settled, lastOp, envVars, visVars, formVars>>

\* the "Save changes" button, disabled while a persist is in progress: the
\* recruiter saves once, and again after a save that failed
SavePressed ==
    /\ ~isPersisting
    /\ settled.kind = "persist" => settled.outcome = "rejected"
    /\ Persist

\* the respondent, who submits once, types a name into the empty candidate
\* name field
FillCandidateName ==
    /\ toast = "none"
    /\ formValues.candidateName = S_empty
    /\ EditCandidateName

\* the respondent answers a required question that is still unanswered
FillRequiredAnswer ==
    /\ toast = "none"
    /\ EditAnswer
    /\ \E questions \in {PageQuestions} :
        \A i \in 1..Len(questions) :
            formValues'.answers[questions[i].id] # formValues.answers[questions[i].id]
                => /\ questions[i].required
                   /\ formValues.answers[questions[i].id] = questionDefaultValue(questions[i])

\* The builder after initialize(FormJob) has completed, and the page as
\* mounted for the same job with its first loadAssessment sent.
RetryInit ==
    /\ VisIdle
    /\ budget = MaxFailures
    /\ \E type \in {"short_text", "numeric"} :
            dbAssessments = [j \in Jobs |->
                IF j = FormJob THEN Some(FormAssessment(type, FALSE)) ELSE None]
    /\ dbSubmissions = <<>>
    /\ submissionKey = 0
    /\ nextId = FirstFreshId
    /\ now = 1
    /\ selectedJobId = Some(FormJob)
    /\ assessment = dbAssessments[FormJob]
    /\ isLoading = FALSE
    /\ isPersisting = FALSE
    /\ error = None
    /\ calls = {}
    /\ started = 0
    /\ applied = NoneApplied
    /\ settled = NoneSettled
    /\ lastOp = NoOp
    /\ pageAssessment = None
    /\ pageIsLoading = TRUE
    /\ pageError = None
    /\ formValues = createDefaultValues(<<>>)
    /\ formErrors = {}
    /\ isSubmitting = FALSE
    /\ toast = "none"
    /\ request = Some(Fetch("load", None))
    /\ attempts = NoAttempts

RetryNext ==
    \/ LoadAssessment
    \/ TransientFetchFailure
    \/ GetHandler
    \/ LoadOk
    \/ LoadFail
    \/ FillCandidateName
    \/ FillRequiredAnswer
    \/ SubmitRejected
    \/ SubmitAccepted
    \/ PostHandler
    \/ SubmitOk
    \/ SubmitFail
    \/ SavePressed
    \/ TransientPutFailure
    \/ PutHandler
    \/ PersistOk
    \/ PersistFail

\* Every request is answered and every answer is handled; the respondent fills
\* the form and presses "Submit", the recruiter presses "Save changes", and
\* whoever sees a failure presses "Try again", "Submit" or "Save changes" again.
RetryFairness ==
    /\ WF_vars(LoadAssessment)
    /\ WF_vars(GetHandler)
    /\ WF_vars(LoadOk)
    /\ WF_vars(LoadFail)
    /\ WF_vars(FillCandidateName)
    /\ WF_vars(FillRequiredAnswer)
    /\ WF_vars(SubmitAccepted)
    /\ WF_vars(PostHandler)
    /\ WF_vars(SubmitOk)
    /\ WF_vars(SubmitFail)
    /\ WF_vars(SavePressed)
    /\ WF_vars(PutHandler)
    /\ WF_vars(PersistOk)
    /\ WF_vars(PersistFail)

SpecRetry == RetryInit /\ [][RetryNext]_vars /\ RetryFairness

\* a request of the page or of the store is answered 503 in this step
RefInjectedFailure ==
    \/ /\ IsSome(request) /\ Get(request).stage = "sent"
       /\ IsSome(request') /\ Get(request').stage = "responded"
       /\ Get(request').response = [ok |-> FALSE, data |-> None,
                                    message |-> "Simulated network instability"]
    \/ \E call \in calls :
        /\ call.stage = "sent"
        /\ \E answered \in calls' :
            /\ answered.seq = call.seq
            /\ answered.stage = "responded"
            /\ answered.response = [ok |-> FALSE, data |-> None,
                                    message |-> "Simulated network instability"]

\* the caller handles an answer that is not ok in this step
RefLoadFailed ==
    /\ IsSome(request) /\ Get(request).kind = "load" /\ Get(request).stage = "responded"
    /\ ~Get(request).response.ok
    /\ request' = None

RefSubmitFailed ==
    /\ IsSome(request) /\ Get(request).kind = "submit" /\ Get(request).stage = "responded"
    /\ ~Get(request).response.ok
    /\ request' = None

RefPersistFailed ==
    \E call \in calls :
        /\ call.kind = "persist" /\ call.stage = "responded" /\ ~call.response.ok
        /\ call \notin calls'

\* the run has room for one attempt more than the failures still to come
RefRoomToRetrySubmit == MaxAttempts - attempts.started > budget
RefRoomToRetryPersist == MaxCalls - started > budget

\* C23 (safety part): a 503 injected by withNetwork leaves both repository
\* tables as they were; the caller that receives it shows a message (the
\* page's load error, the submit toast with the response's message, the
\* store's error with the response's message), ends its busy state and keeps
\* what the retry needs (the form values, the in-memory assessment), so that
\* "Try again", "Submit" or "Save changes" can be pressed again.
C23_FailureIsSurfacedAndRetryable ==
    [][ /\ RefInjectedFailure => UNCHANGED envVars
        /\ RefLoadFailed =>
                /\ IsSome(pageError')
                /\ ~pageIsLoading'
                /\ UNCHANGED envVars
        /\ RefSubmitFailed =>
                /\ toast' = "error"
                /\ ~isSubmitting'
                /\ formValues' = formValues
                /\ pageAssessment' = pageAssessment
                /\ UNCHANGED envVars
        /\ RefPersistFailed =>
                /\ error' = Some("Simulated network instability")
                /\ ~isPersisting'
                /\ assessment' = assessment
                /\ UNCHANGED envVars ]_vars

---------------------------------------------------------------------------
(* Builder store: the loaded assessment and the selected job               *)

\* C24: in every reachable state of the builder store, under any interleaving
\* of initialize, refresh, persist (start and completion) and reset, a loaded
\* assessment belongs to the selected job: if `assessment` is not null then
\* `selectedJobId` is not null and assessment.jobId equals it.
C24_AssessmentBelongsToSelectedJob ==
    IsSome(assessment) =>
        /\ IsSome(selectedJobId)
        /\ Get(assessment).jobId = Get(selectedJobId)


---------------------------------------------------------------------------
(* Builder store: identifier uniqueness                                    *)

\* C25: after any sequence of builder operations, reorders with repeated,
\* unknown or partial identifier lists included, the section identifiers of
\* the assessment are pairwise distinct and so are the question identifiers
\* across all its sections.
C25_IdentifiersAreDistinct ==
    IsSome(assessment) =>
        /\ Cardinality(SectionIds(Get(assessment))) = Len(Get(assessment).sections)
        /\ Cardinality(QuestionIds(Get(assessment))) = Len(AllQuestions(Get(assessment)))


---------------------------------------------------------------------------
(* Question editor: AssessmentQuestionEditor.tsx                           *)

MaxEditorChanges == 2       \* changes made in question editors in a run

\* Array.prototype.join(', ')
RECURSIVE JoinComma(_)
JoinComma(parts) ==
    IF parts = <<>> THEN S_empty
    ELSE IF Len(parts) = 1 THEN parts[1]
    ELSE parts[1] \o <<",", " ">> \o JoinComma(Tail(parts))

\* toFormValues: the form has no field for validation.allowedFileTypes, and
\* shows a list-valued `equals` joined into one string
toFormValues(question) ==
    [type |-> question.type,
     label |-> question.label,
     description |-> Coalesce(question.description, S_empty),
     helperText |-> Coalesce(question.helperText, S_empty),
     required |-> question.required,
     choices |-> Coalesce(question.choices, <<>>),
     validation |->
        [minLength |-> question.validation.minLength,
         maxLength |-> question.validation.maxLength,
         minValue |-> question.validation.minValue,
         maxValue |-> question.validation.maxValue,
         maxFileSizeMb |-> question.validation.maxFileSizeMb],
     conditionalEnabled |-> IsSome(question.conditionalLogic),
     conditionalQuestionId |->
        IF IsSome(question.conditionalLogic)
        THEN Some(Get(question.conditionalLogic).questionId) ELSE None,
     conditionalEquals |->
        IF ~IsSome(question.conditionalLogic) THEN None
        ELSE IF Get(question.conditionalLogic).equals.k = "string"
        THEN Some(Get(question.conditionalLogic).equals.s)
        ELSE Some(JoinComma(Get(question.conditionalLogic).equals.a))]

\* questionSchema.safeParse(values).success
questionSchemaAccepts(values) ==
    /\ Len(values.label) >= 1
    /\ \A i \in 1..Len(values.choices) :
            Len(values.choices[i].label) >= 1 /\ Len(values.choices[i].value) >= 1
    /\ values.type \in {"single_choice", "multi_choice"} => Len(values.choices) >= 2
    /\ (/\ values.type \in {"short_text", "long_text"}
        /\ IsSome(values.validation.minLength)
        /\ IsSome(values.validation.maxLength))
            => Get(values.validation.maxLength) >= Get(values.validation.minLength)
    /\ (/\ values.type = "numeric"
        /\ IsSome(values.validation.minValue)
        /\ IsSome(values.validation.maxValue))
            => Get(values.validation.maxValue) >= Get(values.validation.minValue)
    /\ values.conditionalEnabled =>
            /\ IsSome(values.conditionalQuestionId)
            /\ IsSome(values.conditionalEquals)
            /\ Trim(Get(values.conditionalEquals)) # S_empty

\* value?.trim() || undefined
TrimmedOrUndefined(text) == IF Trim(text) = S_empty THEN None ELSE Some(Trim(text))

\* sanitizeQuestion: the Partial<AssessmentQuestion> handed to updateQuestion;
\* `validation` is rebuilt from the five fields of the form and
\* `conditionalLogic` from the form's strings
sanitizeQuestion(values) ==
    [type |-> values.type,
     label |-> Trim(values.label),
     description |-> TrimmedOrUndefined(values.description),
     helperText |-> TrimmedOrUndefined(values.helperText),
     required |-> values.required,
     validation |->
        [NoValidation EXCEPT
            !.minLength = values.validation.minLength,
            !.maxLength = values.validation.maxLength,
            !.minValue = values.validation.minValue,
            !.maxValue = values.validation.maxValue,
            !.maxFileSizeMb = values.validation.maxFileSizeMb],
     choices |->
        IF values.type \in {"single_choice", "multi_choice"}
        THEN Some([i \in 1..Len(values.choices) |->
                    [values.choices[i] EXCEPT !.label = Trim(@), !.value = Trim(@)]])
        ELSE None,
     conditionalLogic |->
        IF /\ values.conditionalEnabled
           /\ IsSome(values.conditionalQuestionId)
           /\ IsSome(values.conditionalEquals)
           /\ Get(values.conditionalEquals) # S_empty
        THEN Some([questionId |-> Get(values.conditionalQuestionId),
                   equals |-> EqStr(Get(values.conditionalEquals))])
        ELSE None]

\* the effect on watchedValues: values that parse and differ from the
\* question's own are sanitized and handed to updateQuestion
EditorApply(question, values) ==
    /\ questionSchemaAccepts(values)
    /\ values # toFormValues(question)
    /\ Mutate(updateQuestion(Get(assessment), question.id, sanitizeQuestion(values)),
              Op("editor", question.id, <<>>))
    /\ UNCHANGED nextId

\* what the recruiter types into the text fields of an editor
EditorTexts == {S_empty, S_x, S_Al}

EditorChangeLabel ==
    /\ IsSome(assessment)
    /\ \E question \in Range(AllQuestions(Get(assessment))), text \in EditorTexts :
        EditorApply(question, [toFormValues(question) EXCEPT !.label = text])

EditorChangeDescription ==
    /\ IsSome(assessment)
    /\ \E question \in Range(AllQuestions(Get(assessment))), text \in EditorTexts :
        EditorApply(question, [toFormValues(question) EXCEPT !.description = text])

EditorChangeHelperText ==
    /\ IsSome(assessment)
    /\ \E question \in Range(AllQuestions(Get(assessment))), text \in EditorTexts :
        EditorApply(question, [toFormValues(question) EXCEPT !.helperText = text])

EditorToggleRequired ==
    /\ IsSome(assessment)
    /\ \E question \in Range(AllQuestions(Get(assessment))) :
        EditorApply(question, [toFormValues(question) EXCEPT !.required = ~@])

\* A section as the builder makes it: a single-choice question, a numeric
\* question and a file question with the validation defaults of their types,
\* the file question shown when the first is answered "yes".
EditorSections ==
    <<[id |-> 1, assessmentId |-> "j1", order |-> 0, title |-> Title("Basics"),
       description |-> Some(""), timeLimitMinutes |-> None,
       questions |-> <<
            [id |-> 3, sectionId |-> 1, order |-> 0, type |-> "single_choice",
             label |-> S_yes, description |-> None, helperText |-> None,
             required |-> TRUE, validation |-> NoValidation, conditionalLogic |-> None,
             choices |-> Some(<<ChoiceYes, ChoiceNo>>)],
            [createDefaultQuestion(1, 1, "numeric", 4) EXCEPT !.label = S_no],
            [createDefaultQuestion(1, 2, "file_upload", 5) EXCEPT
                !.label = S_x,
                !.helperText = None,
                !.conditionalLogic = Some([questionId |-> 3, equals |-> EqStr(S_yes)])] >>] >>

\* The store after initialize(j1) has completed on that assessment.
EditorInit ==
    /\ VisIdle
    /\ FormIdle
    /\ dbAssessments =
            [j \in Jobs |->
                IF j = "j1"
                THEN Some([SavedAssessment(j) EXCEPT !.sections = EditorSections])
                ELSE None]
    /\ dbSubmissions = <<>>
    /\ submissionKey = 0
    /\ nextId = FirstFreshId
    /\ now = 1
    /\ selectedJobId = Some("j1")
    /\ assessment = dbAssessments["j1"]
    /\ isLoading = FALSE
    /\ isPersisting = FALSE
    /\ error = None
    /\ calls = {}
    /\ started = 1
    /\ applied = [seq |-> 1, newest |-> 1]
    /\ settled = [seq |-> 1, kind |-> "initialize", outcome |-> "resolved", caught |-> FALSE]
    /\ lastOp = NoOp
    /\ budget = MaxEditorChanges

EditorNext ==
    \/ EditorChangeLabel
    \/ EditorChangeDescription
    \/ EditorChangeHelperText
    \/ EditorToggleRequired

SpecEditor == EditorInit /\ [][EditorNext]_vars

\* the question with the identifier in an assessment whose identifiers are distinct
RefQuestion(a, questionId) ==
    CHOOSE question \in Range(AllQuestions(a)) : question.id = questionId

\* C26: when the editor applies a change of label, description, helperText or
\* required through updateQuestion, the edited question's
\* validation.allowedFileTypes and the comparand of its conditionalLogic are
\* the same after the update as before it.
C26_EditorLeavesOtherFieldsAlone ==
    lastOp.name = "editor" =>
        LET before == RefQuestion(lastOp.before, lastOp.target)
            after == RefQuestion(lastOp.after, lastOp.target)
        IN  /\ after.validation.allowedFileTypes = before.validation.allowedFileTypes
            /\ after.conditionalLogic = before.conditionalLogic


---------------------------------------------------------------------------
(* Hidden-value reset on chains and cycles of conditional questions: the   *)
(* page with an assessment of three questions on screen, in any state of   *)
(* its form                                                                *)

HideQuestion(id, type, conditionalLogic) ==
    [id |-> id, sectionId |-> 1, order |-> id - 1, type |-> type,
     label |-> "Question", description |-> None, helperText |-> None,
     required |-> TRUE, validation |-> NoValidation, conditionalLogic |-> conditionalLogic,
     choices |-> IF type \in {"single_choice", "multi_choice"}
                 THEN Some(<<ChoiceYes, ChoiceNo>>) ELSE None]

DependsOn(questionId, equals) == Some([questionId |-> questionId, equals |-> equals])

\* the conditional configurations: chains over the question types, a
\* dependency on a later question, a cycle of two questions and a question
\* that depends on itself; every comparand is non-empty
HideConfigurations ==
    {<<HideQuestion(1, "single_choice", None),
       HideQuestion(2, "single_choice", DependsOn(1, EqStr(S_yes))),
       HideQuestion(3, "short_text", DependsOn(2, EqStr(S_yes)))>>,
     <<HideQuestion(1, "multi_choice", None),
       HideQuestion(2, "short_text", DependsOn(1, EqArr(<<S_yes, S_x>>))),
       HideQuestion(3, "file_upload", DependsOn(2, EqStr(S_x)))>>,
     <<HideQuestion(1, "numeric", DependsOn(2, EqArr(<<S_no>>))),
       HideQuestion(2, "multi_choice", DependsOn(3, EqStr(S_yes))),
       HideQuestion(3, "single_choice", None)>>,
     <<HideQuestion(1, "short_text", DependsOn(2, EqStr(S_yes))),
       HideQuestion(2, "single_choice", DependsOn(1, EqStr(S_x))),
       HideQuestion(3, "multi_choice", DependsOn(3, EqStr(S_no)))>>}

HideAssessment(questions) ==
    UpsertRecord(
        [id |-> 21, jobId |-> FormJob, title |-> "Untitled assessment", summary |-> "",
         role |-> "Generalist", difficulty |-> "medium", durationMinutes |-> 60,
         status |-> "published", tags |-> <<>>, createdAt |-> 0, updatedAt |-> 0,
         sections |-> <<[id |-> 1, assessmentId |-> FormJob, order |-> 0,
                         title |-> Title("Basics"), description |-> Some(""),
                         timeLimitMinutes |-> None, questions |-> questions]>>], 0)

\* the form states of a configuration: every question holds a value its
\* control can produce, whether the question is visible or not
HideFormStates(questions) ==
    {answers \in [{questions[i].id : i \in 1..Len(questions)} ->
                    UNION {ControlValues(questions[i]) : i \in 1..Len(questions)}] :
        \A i \in 1..Len(questions) : answers[questions[i].id] \in ControlValues(questions[i])}

HideInit ==
    /\ VisIdle
    /\ StoreInit
    /\ budget = 0
    /\ \E questions \in HideConfigurations :
        /\ dbAssessments = [j \in Jobs |->
                IF j = FormJob THEN Some(HideAssessment(questions)) ELSE None]
        /\ pageAssessment = dbAssessments[FormJob]
        /\ \E answers \in HideFormStates(questions) :
            formValues = [candidateName |-> S_Al, candidateEmail |-> S_empty,
                          answers |-> answers]
    /\ dbSubmissions = <<>>
    /\ submissionKey = 0
    /\ nextId = FirstFreshId
    /\ now = 1
    /\ pageIsLoading = FALSE
    /\ pageError = None
    /\ formErrors = {}
    /\ isSubmitting = FALSE
    /\ toast = "none"
    /\ request = None
    /\ attempts = NoAttempts

HideNext ==
    \/ EditAnswer
    \/ HiddenResetEffect

\* React runs the effect after every render that changed the watched values.
SpecHide == HideInit /\ [][HideNext]_vars /\ WF_vars(HiddenResetEffect)

\* the question a conditional names, in a list whose identifiers are distinct
RefTarget(questions, question) ==
    CHOOSE target \in Range(questions) : target.id = Get(question.conditionalLogic).questionId

\* C27: transitive hiding. With every comparand non-empty, once the
\* hidden-value reset has nothing left to do, a question whose conditional
\* target is hidden is hidden itself: the answers a submit would assemble
\* hold no answer for it and the validator reports no issue for it.
C27_HiddenTargetHidesDependent ==
    (IsSome(pageAssessment) /\ ~ResetPending) =>
        \A question \in Range(PageQuestions) :
            (/\ IsSome(question.conditionalLogic)
             /\ ~isQuestionVisible(RefTarget(PageQuestions, question), formValues.answers))
            => /\ ~isQuestionVisible(question, formValues.answers)
               /\ \A i \in 1..Len(AssembleAnswers(PageQuestions, formValues)) :
                    AssembleAnswers(PageQuestions, formValues)[i].questionId # question.id
               /\ \A issue \in buildSubmissionSchema(PageQuestions, formValues) :
                    ~(issue.field = "question" /\ issue.id = question.id)

\* The chain 1 <- 2 <- 3 after the respondent answered "yes", "yes", "x" and
\* then changed the first answer to "no": the reset has run, questions 2 and 3
\* are hidden and hold their defaults.
C27_Witness ==
    /\ IsSome(pageAssessment)
    /\ ~ResetPending
    /\ attempts.edits > 0
    /\ PageQuestions[3].conditionalLogic = DependsOn(2, EqStr(S_yes))
    /\ formValues.answers[1] = StrV(S_no)
    /\ formValues.answers[2] = StrV(S_empty)
    /\ formValues.answers[3] = StrV(S_empty)

\* the questions that hold a value other than the default of their type
RefOffDefault(values) ==
    {question \in Range(PageQuestions) :
        ~isEqualValue(ValueOf(values.answers, question.id), questionDefaultValue(question))}

\* C28: the hidden-value reset terminates. Every run of the reset lowers the
\* number of questions that hold a non-default value, and from every form
\* state in which a hidden question holds a non-default value the form
\* reaches, by resets alone, a state in which every hidden question holds its
\* default; this for chains, cycles and self-references alike.
C28_HiddenResetTerminates ==
    /\ [][ResetPending =>
            /\ Cardinality(RefOffDefault(formValues')) < Cardinality(RefOffDefault(formValues))
            /\ attempts' = attempts]_vars
    /\ ResetPending ~> ~ResetPending

\* The cycle 1 <-> 2 at rest after resets: both questions are hidden and hold
\* their defaults, with no edit by the respondent.
C28_Witness ==
    /\ IsSome(pageAssessment)
    /\ ~ResetPending
    /\ attempts.edits = 0
    /\ PageQuestions[1].conditionalLogic = DependsOn(2, EqStr(S_yes))
    /\ PageQuestions[2].conditionalLogic = DependsOn(1, EqStr(S_x))
    /\ formValues.answers[1] = StrV(S_empty)
    /\ formValues.answers[2] = StrV(S_empty)
    /\ formValues.answers[3] = ArrV(<<>>)


---------------------------------------------------------------------------
(* The validator and the assembler on numeric answers                      *)

\* C29: for a visible numeric question whose value passed validation, the
\* answer the submit handler assembles carries the number the value stands
\* for when the value is not blank (a number, or a numeric string), and null
\* only when the value is blank.
C29_NumericAnswerIsTheValidatedNumber ==
    (IsSome(request) /\ pq.type = "numeric")
        => LET value == pvalues.answers[pq.id]
               answer == Get(Get(request).body).answers[1]
           IN  /\ answer.questionId = pq.id
               /\ answer.response =
                    IF RefBlankNumeric(value) THEN Null
                    ELSE NumV(Get(RefNumber(value)))


---------------------------------------------------------------------------
(* ensureAssessmentForJob step by step: the read (getAssessmentByJobId)    *)
(* and the write (upsertAssessment) are separate awaits, so the builder's  *)
(* initialize and the GET handler of the submission page may overlap.      *)

\* initialize, from `await ensureForJob` to the answer of the read: the
\* stored record is returned and set, or a default is built for the upsert
InitializeRead ==
    \E call \in calls :
        /\ call.kind = "initialize"
        /\ call.stage = "pending"
        /\ LET existing == getAssessmentByJobId(dbAssessments, call.jobId)
           IN  IF IsSome(existing)
               THEN /\ selectedJobId' = Some(call.jobId)
                    /\ assessment' = existing
                    /\ isLoading' = FALSE
                    /\ applied' = [seq |-> call.seq, newest |-> started]
                    /\ settled' = [seq |-> call.seq, kind |-> call.kind,
                                   outcome |-> "resolved", caught |-> FALSE]
                    /\ calls' = calls \ {call}
                    /\ UNCHANGED nextId
               ELSE /\ calls' = (calls \ {call}) \cup
                            {[call EXCEPT
                                !.stage = "creating",
                                !.body = Some(DefaultAssessment(call.jobId, nextId, now))]}
                    /\ nextId' = nextId + 1 + IdsOfDefaultSections
                    /\ UNCHANGED <<selectedJobId, assessment, isLoading, applied, settled>>
        /\ UNCHANGED <<isPersisting, error, started, budget, lastOp, dbAssessments,
                       dbSubmissions, submissionKey, now, visVars, formVars>>

\* initialize, from the upsert of the default on: the default is written
\* under the job, returned as built, and set
InitializeCreated ==
    \E call \in calls :
        /\ call.kind = "initialize"
        /\ call.stage = "creating"
        /\ dbAssessments' = upsertAssessment(dbAssessments, Get(call.body), now)
        /\ now' = now + 1
        /\ selectedJobId' = Some(call.jobId)
        /\ assessment' = call.body
        /\ isLoading' = FALSE
        /\ applied' = [seq |-> call.seq, newest |-> started]
        /\ settled' = [seq |-> call.seq, kind |-> call.kind,
                       outcome |-> "resolved", caught |-> FALSE]
        /\ calls' = calls \ {call}
        /\ UNCHANGED <<isPersisting, error, started, budget, lastOp, dbSubmissions,
                       submissionKey, nextId, visVars, formVars>>

\* GET /api/assessments/:jobId, up to the answer of the read: the stored
\* record is the response, or a default is built for the upsert
GetRead ==
    /\ IsSome(request)
    /\ Get(request).kind = "load"
    /\ Get(request).stage = "sent"
    /\ LET existing == getAssessmentByJobId(dbAssessments, FormJob)
       IN  IF IsSome(existing)
           THEN /\ request' = Some(Respond(Get(request), TRUE, existing, ""))
                /\ UNCHANGED nextId
           ELSE /\ request' = Some([Get(request) EXCEPT
                        !.stage = "creating",
                        !.body = Some(DefaultAssessment(FormJob, nextId, now))])
                /\ nextId' = nextId + 1 + IdsOfDefaultSections
    /\ UNCHANGED <<pageAssessment, pageIsLoading, pageError, formValues, formErrors,
                   isSubmitting, toast, attempts, dbAssessments, dbSubmissions,
                   submissionKey, now, visVars, storeVars>>

\* GET /api/assessments/:jobId, from the upsert of the default on: the
\* default is written under the job and is the response as built
GetCreated ==
    /\ IsSome(request)
    /\ Get(request).kind = "load"
    /\ Get(request).stage = "creating"
    /\ dbAssessments' = upsertAssessment(dbAssessments, Get(Get(request).body), now)
    /\ now' = now + 1
    /\ request' = Some(Respond(Get(request), TRUE, Get(request).body, ""))
    /\ UNCHANGED <<pageAssessment, pageIsLoading, pageError, formValues, formErrors,
                   isSubmitting, toast, attempts, dbSubmissions, submissionKey, nextId,
                   visVars, storeVars>>

\* The builder store as constructed and the submission page of job j1 just
\* mounted, its load sent; the repository holds a record for j1 or for no job
EnsureInit ==
    /\ VisIdle
    /\ StoreInit
    /\ budget = 0
    /\ dbAssessments \in
            {[j \in Jobs |-> None],
             [j \in Jobs |-> IF j = FormJob THEN Some(SavedAssessment(j)) ELSE None]}
    /\ dbSubmissions = <<>>
    /\ submissionKey = 0
    /\ nextId = FirstFreshId
    /\ now = 1
    /\ pageAssessment = None
    /\ pageIsLoading = TRUE
    /\ pageError = None
    /\ formValues = createDefaultValues(<<>>)
    /\ formErrors = {}
    /\ isSubmitting = FALSE
    /\ toast = "none"
    /\ request = Some(Fetch("load", None))
    /\ attempts = NoAttempts

EnsureNext ==
    \/ Initialize
    \/ InitializeRead
    \/ InitializeCreated
    \/ GetRead
    \/ GetCreated
    \/ LoadOk

SpecEnsure == EnsureInit /\ [][EnsureNext]_vars

\* the record stored for a job
RefPersisted(jobId) == Get(dbAssessments[jobId])

\* C30: once the ensure calls for a job have completed (the builder's
\* initialize and the GET of the submission page, overlapping or not), the
\* Assessment each caller received has the identifier of the record
\* persisted for the job.
C30_EnsureCallersAgreeWithPersisted ==
    (/\ calls = {}
     /\ IsSome(assessment)
     /\ Get(assessment).jobId = FormJob
     /\ IsSome(pageAssessment))
        => /\ IsSome(dbAssessments[FormJob])
           /\ Get(assessment).id = RefPersisted(FormJob).id
           /\ Get(pageAssessment).id = RefPersisted(FormJob).id

===========================================================================
